---- MODULE Spec2Model ----
(***************************************************************************)
(* Workout timer (src/src/workout-timer/workout-timer.js): the workout     *)
(* compiler and the session state machine driven by user input, the tick   *)
(* interval and speech-completion callbacks.                               *)
(*                                                                         *)
(* Time is the value of Date.now() in milliseconds.  All code of one       *)
(* handler runs at one value of `now`; `now` moves between handlers.       *)
(* The speech engine is modelled per announcement: speechQueue counts the  *)
(* announcements whose utterance is queued or speaking in                  *)
(* window.speechSynthesis.                                                 *)
(***************************************************************************)
EXTENDS Integers, Sequences, FiniteSets, Bags, TLC

\* ------------------------------------------------------------------ bounds
\* Number of half-second grains of wall-clock time a session is followed for.
MaxGrains == 2
\* Number of half-second grains followed when only pausing is studied.
MaxPauseGrains == 4
\* Number of five-second jumps followed when long steps are studied.
MaxJumps == 2
\* Most workouts begun in one run of the page.
MaxStarts == 1
\* Most announcement continuations awaiting speech completion at once.
MaxPending == 1
\* ... and while a pause is followed at once by a resume
MaxAnnouncements == 2
\* Most wake-lock requests in flight at once.
MaxWakePending == 1
\* Most workouts kept in the store.
MaxWorkouts == 3
\* The speech queue is counted up to this many announcements.
MaxSpeech == 2
\* Number of whole seconds followed when skipping backward is studied.
MaxSeconds == 2
MaxLiveSeconds == 14
\* Most lines of a workout text handed to the compiler.
MaxLines == 2
\* Most lexemes of a duration string handed to parseVolume.
MaxTokens == 5

\* --------------------------------------------------------------- constants
CHANGE_EXERCISE_TRANSITION_S == 6
CHANGE_SIDES_TRANSITION_S == 6
HALFWAY_ANNOUNCEMENT_MIN_DURATION_S == 20
STEP_JUST_STARTED_THRESHOLD_S == 2

EDITING == "editing"
IN_PROGRESS == "in_progress"
PAUSED == "paused"
DONE == "done"
STATUS == {EDITING, IN_PROGRESS, PAUSED, DONE}

\* JavaScript null / undefined for string-valued fields.
Null == "null"
Undefined == "undefined"

Min(a, b) == IF a < b THEN a ELSE b
Max(a, b) == IF a > b THEN a ELSE b

\* ------------------------------------------------------------ workout text
\* A duration string is a sequence of lexemes: a run of digits (its value),
\* a run of whitespace, a comma, or a run of other characters (a word).  No
\* two runs of the same kind are adjacent.
Num(n) == [k |-> "num", n |-> n, w |-> ""]
Sp == [k |-> "sp", n |-> 0, w |-> ""]
Comma == [k |-> "comma", n |-> 0, w |-> ""]
Word(w) == [k |-> "word", n |-> 0, w |-> w]

\* The duration string made of a number directly followed by a unit word
\* ("" for a bare number).
Tok(n, suffix) == IF suffix = "" THEN << Num(n) >> ELSE << Num(n), Word(suffix) >>

\* The words the patterns of parseVolume accept: reps?, s(ec(ond)?s?)?,
\* m(in(ute)?s?)?.
RepsSuffixes == {"rep", "reps"}
SecondSuffixes == {"s", "sec", "secs", "second", "seconds"}
MinuteSuffixes == {"m", "min", "mins", "minute", "minutes"}

\* String.prototype.toLowerCase, on the words followed here.
lowerWord(w) == IF w = "Min" THEN "min" ELSE IF w = "S" THEN "s" ELSE w
toLowerCase(d) == [i \in 1..Len(d) |-> [d[i] EXCEPT !.w = lowerWord(@)]]

\* String.prototype.trim
RECURSIVE trimLeft(_)
trimLeft(d) == IF d # << >> /\ Head(d).k = "sp" THEN trimLeft(Tail(d)) ELSE d

RECURSIVE trimRight(_)
trimRight(d) ==
  IF d # << >> /\ d[Len(d)].k = "sp" THEN trimRight(SubSeq(d, 1, Len(d) - 1)) ELSE d

trim(d) == trimRight(trimLeft(d))

\* String.prototype.split(","): the pieces between the commas.
RECURSIVE splitComma(_, _)
splitComma(d, piece) ==
  IF d = << >> THEN << piece >>
  ELSE IF Head(d).k = "comma" THEN << piece >> \o splitComma(Tail(d), << >>)
  ELSE splitComma(Tail(d), Append(piece, Head(d)))

\* The lexemes of a string that a pattern's \s* skips, and the kinds of the
\* others in order: the patterns of parseVolume allow whitespace between any
\* number and word they match and nowhere else.
withoutSpace(d) == SelectSeq(d, LAMBDA x : x.k # "sp")
kinds(d) == [i \in 1..Len(d) |-> d[i].k]

\* A line of text, after the split the line parser performs on it.
BlankLine == [form |-> "blank"]
CommentLine == [form |-> "comment"]
HashLine(n, name) == [form |-> "hash", hashes |-> n, name |-> name]
PartsLine(parts, notes) == [form |-> "parts", parts |-> parts, notes |-> notes]

\* parseVolume: a Volume, or an error record when the code throws.
Volume(value, unit) == [value |-> value, unit |-> unit]
VolumeError == [error |-> "InvalidDuration"]

RECURSIVE parseVolume(_)
RECURSIVE sumParts(_, _)

\* A loop body that sums a piece whatever its unit.
addPartAnyUnit(parsed, rest, total) ==
  IF parsed = VolumeError THEN VolumeError
  ELSE sumParts(rest, total + parsed.value)

\* The body of the loop of parseVolume over the pieces of a comma list:
\* `parsed` is the volume of the piece at hand, `rest` the pieces after it.
addPart(parsed, rest, total) ==
  IF parsed = VolumeError THEN VolumeError
  ELSE IF parsed.unit # "seconds" THEN VolumeError
  ELSE sumParts(rest, total + parsed.value)

\* The loop of parseVolume over the pieces of a comma list.
sumParts(parts, total) ==
  IF parts = << >> THEN Volume(total, "seconds")
  ELSE addPart(parseVolume(trim(Head(parts))), Tail(parts), total)

\* The patterns of parseVolume in the order the code tries them, on the
\* trimmed lower-case string d; c is d without its whitespace.
matchVolume(d, c) ==
  IF kinds(d) = << "num" >> THEN Volume(d[1].n, "reps")
  ELSE IF kinds(c) = << "num", "word" >> /\ c[2].w \in RepsSuffixes
    THEN Volume(c[1].n, "reps")
  ELSE IF /\ kinds(c) = << "num", "word", "num", "word" >>
          /\ c[2].w \in MinuteSuffixes
          /\ c[4].w \in SecondSuffixes
    THEN Volume(c[1].n * 60 + c[3].n, "seconds")
  ELSE IF \E i \in 1..Len(d) : d[i].k = "comma"
    THEN sumParts(splitComma(d, << >>), 0)
  ELSE IF kinds(c) = << "num", "word" >> /\ c[2].w \in SecondSuffixes
    THEN Volume(c[1].n, "seconds")
  ELSE IF kinds(c) = << "num", "word" >> /\ c[2].w \in MinuteSuffixes
    THEN Volume(c[1].n * 60, "seconds")
  ELSE VolumeError

trimmedVolume(d) == matchVolume(d, withoutSpace(d))

parseVolume(duration) == trimmedVolume(trim(toLowerCase(duration)))

ParsedError(kind, stepType) == [type |-> "error", kind |-> kind, stepType |-> stepType]

\* A classification that accepts any unit on a rest line.
parsePartsRestAnyUnit(name, volume, modifier, isRest, notes) ==
  IF volume = VolumeError
    THEN ParsedError("duration", IF isRest THEN "rest" ELSE "exercise")
  ELSE IF isRest THEN
    IF modifier # Undefined THEN ParsedError("modifier", "rest")
    ELSE [type |-> "rest", volume |-> volume, notes |-> notes]
  ELSE IF modifier \notin {Undefined, ""} /\ modifier # "each side"
    THEN ParsedError("modifier", "exercise")
  ELSE [type |-> "exercise", name |-> name, volume |-> volume,
        modifier |-> IF modifier \in {Undefined, ""} THEN Null ELSE modifier,
        notes |-> notes]

\* parseLine once the parts are counted: `volume` is what parseVolume gave
\* for the second part (VolumeError when it threw), `modifier` the third part.
parseParts(name, volume, modifier, isRest, notes) ==
  IF volume = VolumeError
    THEN ParsedError("duration", IF isRest THEN "rest" ELSE "exercise")
  ELSE IF isRest THEN
    IF volume.unit = "reps" THEN ParsedError("duration", "rest")
    ELSE IF modifier # Undefined THEN ParsedError("modifier", "rest")
    ELSE [type |-> "rest", volume |-> volume, notes |-> notes]
  ELSE IF modifier \notin {Undefined, ""} /\ modifier # "each side"
    THEN ParsedError("modifier", "exercise")
  ELSE [type |-> "exercise", name |-> name, volume |-> volume,
        modifier |-> IF modifier \in {Undefined, ""} THEN Null ELSE modifier,
        notes |-> notes]

parseLine(line, lineIndex) ==
  IF line.form \in {"blank", "comment"} THEN [type |-> "empty"]
  ELSE IF line.form = "hash" THEN
    IF line.hashes > 2 THEN ParsedError("lineFormat", Null)
    ELSE IF line.name = "" THEN ParsedError("lineFormat", Null)
    ELSE IF line.hashes = 1 THEN
      IF lineIndex # 0 THEN ParsedError("lineFormat", Null)
      ELSE [type |-> "title", name |-> line.name]
    ELSE [type |-> "header", name |-> line.name]
  ELSE IF Len(line.parts) < 2 \/ Len(line.parts) > 3
    THEN ParsedError("lineFormat", Null)
  ELSE parseParts(line.parts[1],
                  parseVolume(line.parts[2]),
                  IF Len(line.parts) = 3 THEN line.parts[3] ELSE Undefined,
                  line.parts[1] \in {"rest", "Rest", "REST"},
                  line.notes)

\* ------------------------------------------------------------------- steps
Exercise(name, volume, side, notes, section) ==
  [type |-> "exercise", name |-> name, volume |-> volume, side |-> side,
   notes |-> notes, section |-> section]
Rest(durationSeconds, notes, section) ==
  [type |-> "rest", durationSeconds |-> durationSeconds, notes |-> notes,
   section |-> section]
Transition(kind, durationSeconds, section) ==
  [type |-> "transition", kind |-> kind, durationSeconds |-> durationSeconds,
   section |-> section]

\* An expansion that leaves out the change of sides.
stepsOfParsedNoSideChange(parsed, section) ==
  IF parsed.type \in {"empty", "title", "header", "error"} THEN << >>
  ELSE IF parsed.type = "rest"
    THEN << Rest(parsed.volume.value, parsed.notes, section) >>
  ELSE IF parsed.modifier = "each side" THEN
    IF parsed.volume.unit = "reps"
      THEN << Exercise(parsed.name, parsed.volume, "each", parsed.notes, section) >>
      ELSE << Transition("changeExercises", CHANGE_EXERCISE_TRANSITION_S, section),
              Exercise(parsed.name, parsed.volume, "left", parsed.notes, section),
              Exercise(parsed.name, parsed.volume, "right", parsed.notes, section) >>
  ELSE IF parsed.volume.unit = "reps"
    THEN << Exercise(parsed.name, parsed.volume, Null, parsed.notes, section) >>
  ELSE << Transition("changeExercises", CHANGE_EXERCISE_TRANSITION_S, section),
          Exercise(parsed.name, parsed.volume, Null, parsed.notes, section) >>

\* An expansion that treats "each side" the same for reps and for seconds.
stepsOfParsedSidesAlways(parsed, section) ==
  IF parsed.type \in {"empty", "title", "header", "error"} THEN << >>
  ELSE IF parsed.type = "rest"
    THEN << Rest(parsed.volume.value, parsed.notes, section) >>
  ELSE IF parsed.modifier = "each side" THEN
    << Transition("changeExercises", CHANGE_EXERCISE_TRANSITION_S, section),
       Exercise(parsed.name, parsed.volume, "left", parsed.notes, section),
       Transition("changeSides", CHANGE_SIDES_TRANSITION_S, section),
       Exercise(parsed.name, parsed.volume, "right", parsed.notes, section) >>
  ELSE IF parsed.volume.unit = "reps"
    THEN << Exercise(parsed.name, parsed.volume, Null, parsed.notes, section) >>
  ELSE << Transition("changeExercises", CHANGE_EXERCISE_TRANSITION_S, section),
          Exercise(parsed.name, parsed.volume, Null, parsed.notes, section) >>

\* An expansion that puts a Transition before every exercise without modifier.
stepsOfParsedTransitionAlways(parsed, section) ==
  IF parsed.type \in {"empty", "title", "header", "error"} THEN << >>
  ELSE IF parsed.type = "rest"
    THEN << Rest(parsed.volume.value, parsed.notes, section) >>
  ELSE IF parsed.modifier = "each side" THEN
    IF parsed.volume.unit = "reps"
      THEN << Exercise(parsed.name, parsed.volume, "each", parsed.notes, section) >>
      ELSE << Transition("changeExercises", CHANGE_EXERCISE_TRANSITION_S, section),
              Exercise(parsed.name, parsed.volume, "left", parsed.notes, section),
              Transition("changeSides", CHANGE_SIDES_TRANSITION_S, section),
              Exercise(parsed.name, parsed.volume, "right", parsed.notes, section) >>
  ELSE << Transition("changeExercises", CHANGE_EXERCISE_TRANSITION_S, section),
          Exercise(parsed.name, parsed.volume, Null, parsed.notes, section) >>

\* An expansion that puts no Transition before an exercise without modifier.
stepsOfParsedNoTransition(parsed, section) ==
  IF parsed.type \in {"empty", "title", "header", "error"} THEN << >>
  ELSE IF parsed.type = "rest"
    THEN << Rest(parsed.volume.value, parsed.notes, section) >>
  ELSE IF parsed.modifier = "each side" THEN
    IF parsed.volume.unit = "reps"
      THEN << Exercise(parsed.name, parsed.volume, "each", parsed.notes, section) >>
      ELSE << Transition("changeExercises", CHANGE_EXERCISE_TRANSITION_S, section),
              Exercise(parsed.name, parsed.volume, "left", parsed.notes, section),
              Transition("changeSides", CHANGE_SIDES_TRANSITION_S, section),
              Exercise(parsed.name, parsed.volume, "right", parsed.notes, section) >>
  ELSE << Exercise(parsed.name, parsed.volume, Null, parsed.notes, section) >>

\* expandLineToSteps after its call of parseLine: the steps of the parsed
\* line; the code throws on an error line (the caller tests for that before
\* using the result).
stepsOfParsed(parsed, section) ==
  IF parsed.type \in {"empty", "title", "header", "error"} THEN << >>
  ELSE IF parsed.type = "rest"
    THEN << Rest(parsed.volume.value, parsed.notes, section) >>
  ELSE IF parsed.modifier = "each side" THEN
    IF parsed.volume.unit = "reps"
      THEN << Exercise(parsed.name, parsed.volume, "each", parsed.notes, section) >>
      ELSE << Transition("changeExercises", CHANGE_EXERCISE_TRANSITION_S, section),
              Exercise(parsed.name, parsed.volume, "left", parsed.notes, section),
              Transition("changeSides", CHANGE_SIDES_TRANSITION_S, section),
              Exercise(parsed.name, parsed.volume, "right", parsed.notes, section) >>
  ELSE IF parsed.volume.unit = "reps"
    THEN << Exercise(parsed.name, parsed.volume, Null, parsed.notes, section) >>
  ELSE << Transition("changeExercises", CHANGE_EXERCISE_TRANSITION_S, section),
          Exercise(parsed.name, parsed.volume, Null, parsed.notes, section) >>

expandLineToSteps(line, lineIndex, section) ==
  stepsOfParsed(parseLine(line, lineIndex), section)

\* The body of the scan of parseWorkout for one line: `parsed` is what
\* parseLine gave for it, `acc` the title, section, steps and the numbers
\* (index + 1, as in the messages) of the lines in error so far.
scanLine(line, index, parsed, acc) ==
  IF parsed.type = "title" THEN [acc EXCEPT !.title = parsed.name]
  ELSE IF parsed.type = "header" THEN [acc EXCEPT !.section = parsed.name]
  ELSE IF parsed.type = "error" THEN [acc EXCEPT !.errors = Append(@, index + 1)]
  ELSE [acc EXCEPT !.steps = @ \o expandLineToSteps(line, index, acc.section)]

\* A scan that stops at the first line in error.
RECURSIVE parseWorkoutFromFailFast(_, _, _)
parseWorkoutFromFailFast(lines, index, acc) ==
  IF index >= Len(lines) \/ acc.errors # << >> THEN acc
  ELSE parseWorkoutFromFailFast(lines, index + 1,
         scanLine(lines[index + 1], index, parseLine(lines[index + 1], index), acc))

\* parseWorkout: the scan over the lines from `index` on.
RECURSIVE parseWorkoutFrom(_, _, _)
parseWorkoutFrom(lines, index, acc) ==
  IF index >= Len(lines) THEN acc
  ELSE parseWorkoutFrom(lines, index + 1,
         scanLine(lines[index + 1], index, parseLine(lines[index + 1], index), acc))

\* parseWorkout after the scan: the joined errors are thrown if there are
\* any, {title, steps} is returned otherwise.
scanResult(r) ==
  IF Len(r.errors) > 0
    THEN [ok |-> FALSE, errors |-> r.errors]
    ELSE [ok |-> TRUE, data |-> [title |-> r.title, steps |-> r.steps]]

parseWorkout(text) ==
  scanResult(parseWorkoutFrom(text, 0,
               [title |-> Null, section |-> Null, steps |-> << >>, errors |-> << >>]))

\* ----------------------------------------------------------------- state
VARIABLES
  state,        \* the Session State record (let state = createInitialState())
  liveTimers,   \* number of live setInterval timers that call onTimerTick
  speechQueue,  \* announcements queued or speaking in window.speechSynthesis
  pending,      \* entry timestamps captured by the announceCurrentStep calls
                \* that await the end of a transition's speech sequence
  wakeLock,     \* a wake-lock sentinel is held (let wakeLock)
  wakePending,  \* navigator.wakeLock.request() calls not yet settled
  isMuted,      \* let isMuted
  dom,          \* what the display functions last wrote to the DOM
  errorBanner,  \* message shown in the error banner, "none" when hidden
  now,          \* Date.now()
  input,        \* the string typed so far for the parser call studied
  output,       \* what that call returned or threw, NoOutput before it
  workoutStore, \* the Workout Store (let workoutStore)
  inputText,    \* the text in the editor (DOM.inputText.value)
  starts,       \* history: workouts begun so far
  finishCount,  \* history: finishWorkout calls in the workout on screen
  pauseSnap,    \* history: what the last pause found, and a skip made since
  lastOp        \* history: the handler that ran last

vars == << state, liveTimers, speechQueue, pending, wakeLock,
           wakePending, isMuted, dom, errorBanner, now, input, output,
           workoutStore, inputText, starts, finishCount, pauseSnap, lastOp >>

editorVars == << workoutStore, inputText >>

\* Length of one grain of wall-clock time, in ms (half a second).
GrainMs == 1000 \div 2
\* Time may pass in one grain or one second at once.
TimeSteps == {GrainMs, 2 * GrainMs}

createInitialState ==
  [status |-> EDITING,
   workoutData |-> [title |-> Null, steps |-> << >>],
   stepResumedAt |-> 0,
   stepElapsedMs |-> 0,
   stepEntryTime |-> 0,
   stepIndex |-> 0,
   stepDuration |-> 0,
   stepAnnounced |-> FALSE,
   workoutStartTime |-> 0,
   totalPausedMs |-> 0,
   pauseStartTime |-> 0,
   lastAnnouncedSecond |-> -1,
   mainTimer |-> FALSE]

\* The mutable world a handler works on: the variables above but `now`
\* and the history variables.
World ==
  [state |-> state, liveTimers |-> liveTimers, speechQueue |-> speechQueue,
   pending |-> pending, wakeLock |-> wakeLock,
   wakePending |-> wakePending, isMuted |-> isMuted, dom |-> dom,
   errorBanner |-> errorBanner, finished |-> 0]

\* -------------------------------------------------------- workout utilities
steps(s) == s.workoutData.steps
getCurrentStep(s) == steps(s)[s.stepIndex + 1]

getStepDuration(step) ==
  IF step.type = "transition" THEN step.durationSeconds
  ELSE IF step.type = "exercise"
    THEN (IF step.volume.unit = "seconds" THEN step.volume.value ELSE 0)
  ELSE IF step.type = "rest" THEN step.durationSeconds
  ELSE 0

getStepElapsedMs(s, t) ==
  IF s.stepResumedAt = 0 THEN s.stepElapsedMs
  ELSE s.stepElapsedMs + (t - s.stepResumedAt)

getStepTimeLeftS(s, t) ==
  Max(0, s.stepDuration - (getStepElapsedMs(s, t) \div 1000))

getWorkoutElapsedS(s, t) ==
  IF s.workoutStartTime = 0 THEN 0
  ELSE LET n == IF s.status = PAUSED THEN s.pauseStartTime ELSE t
       IN (n - s.workoutStartTime - s.totalPausedMs) \div 1000

\* ------------------------------------------------------------- tick timer
stopTickTimer(w) ==
  IF w.state.mainTimer
    THEN [w EXCEPT !.liveTimers = @ - 1, !.state.mainTimer = FALSE]
    ELSE w

\* Variant: an interval is set without clearing the one already held.
startTickTimerNoClear(w) ==
  [w EXCEPT !.liveTimers = @ + 1, !.state.mainTimer = TRUE]

startTickTimer(w) ==
  LET w1 == stopTickTimer(w)
  IN [w1 EXCEPT !.liveTimers = @ + 1, !.state.mainTimer = TRUE]

\* ------------------------------------------------------------------ speech
\* speak: queues an utterance unless muted.
speak(w) ==
  IF w.isMuted THEN w
  ELSE [w EXCEPT !.speechQueue = Min(@ + 1, MaxSpeech)]

\* window.speechSynthesis.cancel()
speechSynthesisCancel(w) == [w EXCEPT !.speechQueue = 0]

\* cancelSpeech cancels now and once more from a 0 ms timeout; the second
\* cancel can only empty the queue again, which SpeechEnd steps also do.
cancelSpeech(w) == speechSynthesisCancel(w)

cancelSpeechForNewSpeech(w) == speechSynthesisCancel(w)

\* ----------------------------------------------------------------- display
\* computeProgressPercent as the fraction num/den (den > 0).
CountExercises(ss) == Len(SelectSeq(ss, LAMBDA x : x.type = "exercise"))

\* Variant: progress counted over all steps instead of the exercises.
computeProgressPercentAllSteps(s) ==
  IF s.status = DONE THEN [num |-> 100, den |-> 1]
  ELSE IF Len(steps(s)) = 0 THEN [num |-> 0, den |-> 1]
  ELSE [num |-> s.stepIndex * 100, den |-> Len(steps(s))]

computeProgressPercent(s) ==
  IF s.status = DONE THEN [num |-> 100, den |-> 1]
  ELSE
    LET total == CountExercises(steps(s))
        done == CountExercises(SubSeq(steps(s), 1, s.stepIndex))
    IN IF total = 0 THEN [num |-> 0, den |-> 1]
       ELSE IF done * 100 > 100 * total THEN [num |-> 100, den |-> 1]
       ELSE [num |-> done * 100, den |-> total]

displayEditing(w) ==
  [w EXCEPT !.dom.view = "editor", !.dom.tappable = FALSE]

displayDone(w) ==
  [w EXCEPT !.dom = [view |-> "workout", tappable |-> FALSE, navDisabled |-> TRUE]]

displayInProgress(w) ==
  LET step == getCurrentStep(w.state)
      tap == \/ step.type = "transition"
             \/ (step.type = "exercise" /\ step.volume.unit = "reps")
  IN [w EXCEPT !.dom = [view |-> "workout", tappable |-> tap, navDisabled |-> FALSE]]

displayPaused(w) == displayInProgress(w)

updateDisplay(w) ==
  IF w.state.status = EDITING THEN displayEditing(w)
  ELSE IF w.state.status = DONE THEN displayDone(w)
  ELSE IF w.state.status = IN_PROGRESS THEN displayInProgress(w)
  ELSE displayPaused(w)

\* showError(message)
showError(w, message) == [w EXCEPT !.errorBanner = message]
hideError(w) == [w EXCEPT !.errorBanner = "none"]

\* ---------------------------------------------------------------- wake lock
\* acquireScreenWakeLock, in a browser with the Wake Lock API: the request
\* settles later (WakeLockSettled).
acquireScreenWakeLock(w) == [w EXCEPT !.wakePending = @ + 1]

releaseScreenWakeLock(w) == [w EXCEPT !.wakeLock = FALSE]

\* ---------------------------------------------------------- step management
isStillOnStep(s, entryTimestamp) ==
  /\ s.stepEntryTime = entryTimestamp
  /\ s.status # DONE
  /\ s.status # EDITING

\* A finish that leaves stepIndex where the advance put it.
finishWorkoutNoPin(w) ==
  LET w1 == [w EXCEPT !.state.status = DONE,
                      !.finished = @ + 1]
  IN updateDisplay(speak(stopTickTimer(w1)))

finishWorkout(w) ==
  LET w1 == [w EXCEPT !.state.status = DONE,
                      !.state.stepIndex = Len(steps(w.state)) - 1,
                      !.finished = @ + 1]
  IN updateDisplay(speak(stopTickTimer(w1)))

\* announceCurrentStep up to its first suspension.  For a transition the
\* speech sequence is started and the rest of the function waits for it
\* (AnnounceContinuation); for an exercise or a rest the function runs to
\* its end.
announceCurrentStep(w, t) ==
  LET step == getCurrentStep(w.state) IN
  IF step.type = "transition"
    THEN [speak(w) EXCEPT !.pending = Append(@, w.state.stepEntryTime)]
    ELSE LET w1 == speak([w EXCEPT !.state.stepResumedAt = t])
             w2 == IF ~w1.state.mainTimer THEN startTickTimer(w1) ELSE w1
         IN [w2 EXCEPT !.state.stepAnnounced = TRUE]

\* A continuation that starts the countdown whatever the status.
announceContinuationAnyStatus(w, entryTimestamp, t) ==
  LET w1 == IF isStillOnStep(w.state, entryTimestamp)
              THEN LET w0 == [w EXCEPT !.state.stepResumedAt = t,
                                       !.state.stepElapsedMs = 0,
                                       !.state.lastAnnouncedSecond = -1]
                   IN IF ~w0.state.mainTimer THEN startTickTimer(w0) ELSE w0
              ELSE w
  IN [w1 EXCEPT !.state.stepAnnounced = TRUE]

\* The part of announceCurrentStep after `await speakSequence(...)`.
announceContinuation(w, entryTimestamp, t) ==
  LET w1 == IF isStillOnStep(w.state, entryTimestamp) /\ w.state.status = IN_PROGRESS
              THEN LET w0 == [w EXCEPT !.state.stepResumedAt = t,
                                       !.state.stepElapsedMs = 0,
                                       !.state.lastAnnouncedSecond = -1]
                   IN IF ~w0.state.mainTimer THEN startTickTimer(w0) ELSE w0
              ELSE w
  IN [w1 EXCEPT !.state.stepAnnounced = TRUE]

enterCurrentStep(w, t) ==
  IF w.state.stepIndex >= Len(steps(w.state)) THEN finishWorkout(w)
  ELSE IF w.state.status = EDITING \/ w.state.status = DONE THEN w
  ELSE
    LET step == getCurrentStep(w.state)
        w1 == [w EXCEPT !.state.stepEntryTime = t,
                        !.state.stepElapsedMs = 0,
                        !.state.stepAnnounced = FALSE,
                        !.state.lastAnnouncedSecond = -1,
                        !.state.stepDuration = getStepDuration(step),
                        !.state.stepResumedAt =
                            IF step.type = "transition" THEN 0 ELSE t]
        w2 == updateDisplay(w1)
    IN IF w2.state.status = IN_PROGRESS THEN announceCurrentStep(w2, t) ELSE w2

advanceToNextStep(w, t) ==
  LET w1 == cancelSpeechForNewSpeech(w)
      w2 == [w1 EXCEPT !.state.stepIndex = @ + 1]
  IN IF w2.state.stepIndex >= Len(steps(w2.state))
       THEN finishWorkout(w2)
       ELSE enterCurrentStep(w2, t)

\* ------------------------------------------------------- navigation helpers
isBreakpointStep(step) ==
  \/ step.type = "transition"
  \/ step.type = "rest"
  \/ (step.type = "exercise" /\ step.volume.unit = "reps")

RECURSIVE nextBreakpointFrom(_, _)
nextBreakpointFrom(ss, i) ==
  IF i >= Len(ss) THEN Len(ss)
  ELSE IF isBreakpointStep(ss[i + 1]) THEN i
  ELSE nextBreakpointFrom(ss, i + 1)

\* Variant: the step after the current one, whatever it is.
findNextBreakpointIndexAdjacent(s) == s.stepIndex + 1

findNextBreakpointIndex(s) == nextBreakpointFrom(steps(s), s.stepIndex + 1)

RECURSIVE prevBreakpointFrom(_, _)
prevBreakpointFrom(ss, i) ==
  IF i < 0 THEN 0
  ELSE IF isBreakpointStep(ss[i + 1]) THEN i
  ELSE prevBreakpointFrom(ss, i - 1)

findPrevBreakpointIndex(s) == prevBreakpointFrom(steps(s), s.stepIndex - 1)

\* ------------------------------------------------------------ workout store
\* A workout text is the sequence of its lines; the empty string has none.
EmptyText == << >>

DEFAULT_WORKOUT ==
  << HashLine(1, "My Workout"),
     HashLine(2, "Warm Up"),
     PartsLine(<< "Jumping Jacks", Tok(30, "s") >>, Null),
     PartsLine(<< "Rest", Tok(10, "s") >>, Null),
     BlankLine,
     HashLine(2, "Main Set"),
     PartsLine(<< "Push-ups", Tok(45, "s") >>, "chest to floor"),
     PartsLine(<< "Rest", Tok(30, "s") >>, Null),
     PartsLine(<< "Lunges", Tok(60, ""), "each side" >>, Null),
     BlankLine,
     HashLine(2, "Cool Down"),
     PartsLine(<< "Stretching", Tok(2, "m") >>, Null) >>

\* What a textarea shows when its value is set to undefined.
UndefinedText == << PartsLine(<< Undefined >>, Null) >>

\* A JavaScript number: an integer or NaN.
JsNumber(n) == [nan |-> FALSE, n |-> n]
NaN == [nan |-> TRUE, n |-> 0]

\* What localStorage holds under STORAGE_KEY_WORKOUTS when the page loads:
\* nothing, a string JSON.parse rejects, or the JSON of an object whose
\* `workouts` is an array of texts or no array and whose `currentIndex` is
\* missing, null, a number or a string.
NoRecord == [kind |-> "none"]
MalformedRecord == [kind |-> "malformed"]
ObjectRecord(isArray, workouts, currentIndex) ==
  [kind |-> "object", isArray |-> isArray, workouts |-> workouts,
   currentIndex |-> currentIndex]
JsonMissing == [t |-> "undefined"]
JsonNull == [t |-> "null"]
JsonNumber(n) == [t |-> "number", n |-> n]
JsonString(str) == [t |-> "string", str |-> str]

\* The conversion to a number that Math.max applies to its arguments, for
\* the strings of digits "0" and "1" and for the strings that are no number.
ToNumber(v) ==
  IF v.t = "number" THEN JsNumber(v.n)
  ELSE IF v.t = "null" THEN JsNumber(0)
  ELSE IF v.t = "string"
    THEN (IF v.str = "0" THEN JsNumber(0)
          ELSE IF v.str = "1" THEN JsNumber(1)
          ELSE NaN)
  ELSE NaN

\* a ?? b
NullishCoalesce(v, default) ==
  IF v.t \in {"undefined", "null"} THEN default ELSE v

\* Math.max(k, x) and Math.min(x, k) for an integer k.
MathMax(k, x) == IF x.nan THEN NaN ELSE JsNumber(Max(k, x.n))
MathMin(x, k) == IF x.nan THEN NaN ELSE JsNumber(Min(x.n, k))

loadWorkoutStore(stored) ==
  IF stored.kind = "object" /\ stored.isArray /\ Len(stored.workouts) > 0
    THEN [workouts |-> stored.workouts,
          currentIndex |->
            MathMin(MathMax(0, ToNumber(NullishCoalesce(stored.currentIndex,
                                                        JsonNumber(0)))),
                    Len(stored.workouts) - 1)]
    ELSE [workouts |-> << DEFAULT_WORKOUT >>, currentIndex |-> JsNumber(0)]

\* x is the index of an element of the array ws.
IsIndexOf(x, ws) == ~x.nan /\ 0 <= x.n /\ x.n < Len(ws)

\* ws[x] assigned to a textarea's value.
TextAt(ws, x) == IF IsIndexOf(x, ws) THEN ws[x.n + 1] ELSE UndefinedText

\* workouts[currentIndex] = DOM.inputText.value: an assignment at NaN sets a
\* property of the array and none of its elements.
saveCurrentWorkoutText(store, text) ==
  IF IsIndexOf(store.currentIndex, store.workouts)
    THEN [store EXCEPT !.workouts[store.currentIndex.n + 1] = text]
    ELSE store

\* The editor a store function works on and leaves behind.
Editor == [workoutStore |-> workoutStore, inputText |-> inputText]

switchToWorkout(e, index) ==
  LET saved == saveCurrentWorkoutText(e.workoutStore, e.inputText)
  IN [workoutStore |-> [saved EXCEPT !.currentIndex = index],
      inputText |-> TextAt(saved.workouts, index)]

createNewWorkout(e) ==
  LET saved == saveCurrentWorkoutText(e.workoutStore, e.inputText)
      ws == Append(saved.workouts, EmptyText)
  IN [workoutStore |-> [workouts |-> ws, currentIndex |-> JsNumber(Len(ws) - 1)],
      inputText |-> EmptyText]

\* ws.splice(start, 1), start being converted to an integer (NaN to 0).
SpliceOne(ws, x) ==
  LET start == IF x.nan THEN 0 ELSE x.n
  IN SubSeq(ws, 1, start) \o SubSeq(ws, start + 2, Len(ws))

deleteCurrentWorkout(e) ==
  LET store == e.workoutStore
  IN IF Len(store.workouts) <= 1
       THEN [workoutStore |-> [workouts |-> [store.workouts EXCEPT ![1] = EmptyText],
                               currentIndex |-> JsNumber(0)],
             inputText |-> EmptyText]
       ELSE LET ws == SpliceOne(store.workouts, store.currentIndex)
                index == IF ~store.currentIndex.nan /\ store.currentIndex.n > 0
                           THEN JsNumber(store.currentIndex.n - 1)
                           ELSE store.currentIndex
            IN [workoutStore |-> [workouts |-> ws, currentIndex |-> index],
                inputText |-> TextAt(ws, index)]

\* ---------------------------------------------------------- workflow control
\* Variant: the wake lock is not released.
transitionToEditingKeepLock(w) ==
  LET w1 == cancelSpeech(stopTickTimer(w))
  IN updateDisplay([w1 EXCEPT !.state.status = EDITING])

transitionToEditing(w) ==
  LET w1 == releaseScreenWakeLock(cancelSpeech(stopTickTimer(w)))
  IN updateDisplay([w1 EXCEPT !.state.status = EDITING])

beginWorkoutFromStart(w, t) ==
  LET w1 == [w EXCEPT !.state.stepIndex = 0,
                      !.state.status = IN_PROGRESS,
                      !.state.workoutStartTime = t,
                      !.state.totalPausedMs = 0,
                      !.state.pauseStartTime = 0,
                      !.state.stepElapsedMs = 0,
                      !.state.stepResumedAt = 0]
      w2 == IF w1.state.stepIndex < Len(steps(w1.state))
              THEN [w1 EXCEPT !.state.stepDuration =
                                  getStepDuration(getCurrentStep(w1.state))]
              ELSE w1
  IN enterCurrentStep(startTickTimer(updateDisplay(w2)), t)

\* Variant: the tick timer is started before the steps are counted.
startWorkoutTimerFirst(w, text, t) ==
  LET w1 == hideError(w)
      compiled == parseWorkout(text)
  IN IF ~compiled.ok THEN showError(w1, "compile")
     ELSE LET w2 == startTickTimer([w1 EXCEPT !.state.workoutData = compiled.data])
          IN IF Len(steps(w2.state)) = 0 THEN showError(w2, "nosteps")
             ELSE beginWorkoutFromStart(acquireScreenWakeLock(w2), t)

\* startWorkout together with the catch of the start button's handler.
startWorkout(w, text, t) ==
  LET w1 == hideError(w)
      compiled == parseWorkout(text)
  IN IF ~compiled.ok THEN showError(w1, "compile")
     ELSE LET w2 == [w1 EXCEPT !.state.workoutData = compiled.data]
          IN IF Len(steps(w2.state)) = 0 THEN showError(w2, "nosteps")
             ELSE beginWorkoutFromStart(acquireScreenWakeLock(w2), t)

\* ------------------------------------------------------------- user controls
\* Variant: pausing leaves the step's clock running.
togglePauseNoFreeze(w, t) ==
  IF w.state.status = DONE
    THEN displayEditing([w EXCEPT !.state.status = EDITING])
  ELSE IF w.state.status = PAUSED THEN
    LET w1 == [w EXCEPT !.isMuted = FALSE,
                        !.state.totalPausedMs = @ + (t - w.state.pauseStartTime),
                        !.state.pauseStartTime = 0,
                        !.state.status = IN_PROGRESS]
        w2 == IF ~w1.state.stepAnnounced
                THEN announceCurrentStep(w1, t)
                ELSE w1
    IN updateDisplay(startTickTimer(w2))
  ELSE IF w.state.status = IN_PROGRESS THEN
    LET w1 == cancelSpeech(w)
        w3 == [w1 EXCEPT !.state.pauseStartTime = t, !.state.status = PAUSED]
    IN updateDisplay(stopTickTimer(w3))
  ELSE updateDisplay(w)

togglePause(w, t) ==
  IF w.state.status = DONE
    THEN displayEditing([w EXCEPT !.state.status = EDITING])
  ELSE IF w.state.status = PAUSED THEN
    LET w1 == [w EXCEPT !.isMuted = FALSE,
                        !.state.totalPausedMs = @ + (t - w.state.pauseStartTime),
                        !.state.pauseStartTime = 0,
                        !.state.status = IN_PROGRESS]
        w2 == IF ~w1.state.stepAnnounced
                THEN announceCurrentStep(w1, t)
                ELSE [w1 EXCEPT !.state.stepResumedAt = t]
    IN updateDisplay(startTickTimer(w2))
  ELSE IF w.state.status = IN_PROGRESS THEN
    LET w1 == cancelSpeech(w)
        rawMs == w1.state.stepElapsedMs + (t - w1.state.stepResumedAt)
        w2 == IF w1.state.stepResumedAt > 0
                THEN [w1 EXCEPT !.state.stepElapsedMs = (rawMs \div 1000) * 1000,
                                !.state.stepResumedAt = 0]
                ELSE w1
        w3 == [w2 EXCEPT !.state.pauseStartTime = t, !.state.status = PAUSED]
    IN updateDisplay(stopTickTimer(w3))
  ELSE updateDisplay(w)

\* The branch both skips take when the status is not IN_PROGRESS.
skipWhilePaused(w, t) ==
  updateDisplay([w EXCEPT !.state.stepElapsedMs = 0,
                          !.state.stepResumedAt = 0,
                          !.state.stepAnnounced = FALSE,
                          !.state.stepEntryTime = t,
                          !.state.stepDuration = getStepDuration(getCurrentStep(w.state))])

skipToNextExercise(w, t) ==
  LET w1 == cancelSpeechForNewSpeech(w)
      nextIndex == findNextBreakpointIndex(w1.state)
  IN IF nextIndex >= Len(steps(w1.state)) THEN finishWorkout(w1)
     ELSE LET w2 == [w1 EXCEPT !.state.stepIndex = nextIndex]
          IN IF w2.state.status = IN_PROGRESS
               THEN enterCurrentStep(w2, t)
               ELSE skipWhilePaused(w2, t)

\* A skip backward that goes to the earlier breakpoint whatever the time
\* since entry.
skipToPrevExerciseAlwaysBack(w, t) ==
  LET w1 == cancelSpeechForNewSpeech(w)
      w2 == [w1 EXCEPT !.state.stepIndex = findPrevBreakpointIndex(w1.state)]
  IN IF w2.state.status = IN_PROGRESS
       THEN enterCurrentStep(w2, t)
       ELSE skipWhilePaused(w2, t)

skipToPrevExercise(w, t) ==
  LET w1 == cancelSpeechForNewSpeech(w)
      elapsedSinceEntry == (t - w1.state.stepEntryTime) \div 1000
      w2 == IF elapsedSinceEntry < STEP_JUST_STARTED_THRESHOLD_S
              THEN [w1 EXCEPT !.state.stepIndex = findPrevBreakpointIndex(w1.state)]
              ELSE w1
  IN IF w2.state.status = IN_PROGRESS
       THEN enterCurrentStep(w2, t)
       ELSE skipWhilePaused(w2, t)

\* -------------------------------------------------------------------- tick
announceCountdownIfNeeded(w, timeLeft) ==
  LET step == getCurrentStep(w.state) IN
  IF step.type = "transition" THEN
    IF timeLeft <= 3 /\ timeLeft > 0 THEN speak(speechSynthesisCancel(w)) ELSE w
  ELSE
    LET duration == IF step.type = "rest" THEN step.durationSeconds
                    ELSE IF step.volume.unit = "seconds" THEN step.volume.value
                    ELSE -1
        halfwayPoint == duration \div 2
        w1 == IF /\ duration # -1
                 /\ duration >= HALFWAY_ANNOUNCEMENT_MIN_DURATION_S
                 /\ timeLeft = halfwayPoint
                THEN speak(w) ELSE w
    IN IF timeLeft <= 3 /\ timeLeft > 0 THEN speak(speechSynthesisCancel(w1)) ELSE w1

\* The number announceCountdownIfNeeded passes to speak for the time left it
\* is given, 0 when it speaks no number or the speech is muted.
countdownNumber(w, timeLeft) ==
  IF timeLeft <= 3 /\ timeLeft > 0 /\ ~w.isMuted THEN timeLeft ELSE 0

\* The places where a call made by the tick handler may raise.
TickFaults == {"none", "countdown", "display", "advance"}

\* The catch block of onTimerTick.
tickCatch(w) == transitionToEditing(showError(w, "timer"))

\* A tick handler that advances at time-left 0 whatever the step duration.
onTimerTickAnyDuration(w, t, fault) ==
  IF w.state.status # IN_PROGRESS THEN [w |-> w, raised |-> "none", said |-> 0]
  ELSE IF w.state.stepResumedAt = 0 THEN
    IF fault = "display" THEN [w |-> tickCatch(w), raised |-> "display", said |-> 0]
    ELSE [w |-> updateDisplay(w), raised |-> "none", said |-> 0]
  ELSE
    LET timeLeft == getStepTimeLeftS(w.state, t)
        changed == timeLeft # w.state.lastAnnouncedSecond
        w1 == IF changed THEN [w EXCEPT !.state.lastAnnouncedSecond = timeLeft] ELSE w
        lost == changed /\ fault = "countdown"
        w2 == IF changed /\ ~lost THEN announceCountdownIfNeeded(w1, timeLeft) ELSE w1
        said == IF changed /\ ~lost THEN countdownNumber(w1, timeLeft) ELSE 0
        lostTag == IF lost THEN "countdown" ELSE "none"
    IN IF fault = "display" THEN [w |-> tickCatch(w2), raised |-> "display", said |-> said]
       ELSE LET w3 == updateDisplay(w2) IN
         IF timeLeft <= 0 THEN
           IF fault = "advance" THEN [w |-> tickCatch(w3), raised |-> "advance", said |-> said]
           ELSE [w |-> advanceToNextStep(w3, t), raised |-> lostTag, said |-> said]
         ELSE [w |-> w3, raised |-> lostTag, said |-> said]

\* onTimerTick.  fault names the call that raises during this tick, if it is
\* reached: the body of the async announceCountdownIfNeeded (its rejection is
\* not awaited), updateDisplay, or advanceToNextStep.  The result carries the
\* world and what was raised.
onTimerTickNoResumeGuard(w, t, fault) ==
  IF w.state.status # IN_PROGRESS THEN [w |-> w, raised |-> "none", said |-> 0]
  ELSE
    LET timeLeft == getStepTimeLeftS(w.state, t)
        changed == timeLeft # w.state.lastAnnouncedSecond
        w1 == IF changed THEN [w EXCEPT !.state.lastAnnouncedSecond = timeLeft] ELSE w
        lost == changed /\ fault = "countdown"
        w2 == IF changed /\ ~lost THEN announceCountdownIfNeeded(w1, timeLeft) ELSE w1
        said == IF changed /\ ~lost THEN countdownNumber(w1, timeLeft) ELSE 0
        lostTag == IF lost THEN "countdown" ELSE "none"
    IN IF fault = "display" THEN [w |-> tickCatch(w2), raised |-> "display", said |-> said]
       ELSE LET w3 == updateDisplay(w2) IN
         IF w3.state.stepDuration > 0 /\ timeLeft <= 0 THEN
           IF fault = "advance" THEN [w |-> tickCatch(w3), raised |-> "advance", said |-> said]
           ELSE [w |-> advanceToNextStep(w3, t), raised |-> lostTag, said |-> said]
         ELSE [w |-> w3, raised |-> lostTag, said |-> said]

onTimerTick(w, t, fault) ==
  IF w.state.status # IN_PROGRESS THEN [w |-> w, raised |-> "none", said |-> 0]
  ELSE IF w.state.stepResumedAt = 0 THEN
    IF fault = "display" THEN [w |-> tickCatch(w), raised |-> "display", said |-> 0]
    ELSE [w |-> updateDisplay(w), raised |-> "none", said |-> 0]
  ELSE
    LET timeLeft == getStepTimeLeftS(w.state, t)
        changed == timeLeft # w.state.lastAnnouncedSecond
        w1 == IF changed THEN [w EXCEPT !.state.lastAnnouncedSecond = timeLeft] ELSE w
        lost == changed /\ fault = "countdown"
        w2 == IF changed /\ ~lost THEN announceCountdownIfNeeded(w1, timeLeft) ELSE w1
        said == IF changed /\ ~lost THEN countdownNumber(w1, timeLeft) ELSE 0
        lostTag == IF lost THEN "countdown" ELSE "none"
    IN IF fault = "display" THEN [w |-> tickCatch(w2), raised |-> "display", said |-> said]
       ELSE LET w3 == updateDisplay(w2) IN
         IF w3.state.stepDuration > 0 /\ timeLeft <= 0 THEN
           IF fault = "advance" THEN [w |-> tickCatch(w3), raised |-> "advance", said |-> said]
           ELSE [w |-> advanceToNextStep(w3, t), raised |-> lostTag, said |-> said]
         ELSE [w |-> w3, raised |-> lostTag, said |-> said]

\* ------------------------------------------------------------------ speech
formatDurationForSpeech(seconds) ==
  IF seconds < 60
    THEN ToString(seconds) \o " " \o (IF seconds = 1 THEN "second" ELSE "seconds")
  ELSE LET mins == seconds \div 60
           secs == seconds % 60
           minPart == ToString(mins) \o " " \o (IF mins = 1 THEN "minute" ELSE "minutes")
       IN IF secs = 0 THEN minPart
          ELSE minPart \o " and " \o ToString(secs) \o " "
                 \o (IF secs = 1 THEN "second" ELSE "seconds")

\* The loop of findNextExerciseOrRest from index i on; the null it returns
\* when no step is found is a step without type, as `next?.type` reads it.
NoStep == [type |-> Undefined]
RECURSIVE nextExerciseOrRestFrom(_, _)
nextExerciseOrRestFrom(ss, i) ==
  IF i >= Len(ss) THEN NoStep
  ELSE IF ss[i + 1].type \in {"exercise", "rest"} THEN ss[i + 1]
  ELSE nextExerciseOrRestFrom(ss, i + 1)

\* A search that starts at the first step of the workout.
findNextExerciseOrRestFromStart(s) == nextExerciseOrRestFrom(steps(s), 0)

findNextExerciseOrRest(s) == nextExerciseOrRestFrom(steps(s), s.stepIndex + 1)

SpeechPart(text, pauseBeforeMs) == [text |-> text, pauseBeforeMs |-> pauseBeforeMs]

\* The transition branch of buildStepSpeechParts, `next` being what
\* findNextExerciseOrRest returned.
transitionSpeechParts(step, next) ==
  IF next.type = "exercise" THEN
    LET sideSuffix ==
          IF step.kind = "changeSides" THEN "the " \o next.side \o " side"
          ELSE IF next.side = "left" \/ next.side = "right"
            THEN next.name \o " on the " \o next.side \o " side"
          ELSE next.name
        prefix == IF step.kind = "changeSides" THEN "Switch to" ELSE "Get ready for"
    IN << SpeechPart(prefix \o " " \o sideSuffix, Null) >>
  ELSE << >>

buildStepSpeechParts(step, s) ==
  IF step.type = "transition"
    THEN transitionSpeechParts(step, findNextExerciseOrRest(s))
  ELSE IF step.type = "exercise" THEN
    IF step.volume.unit = "reps" THEN
      << SpeechPart(step.name, Null),
         SpeechPart(ToString(step.volume.value) \o " reps"
                      \o (IF step.side = "each" THEN " on each side" ELSE ""), 400),
         SpeechPart("Go!", 400),
         SpeechPart("Tap when done", 400) >>
    ELSE << SpeechPart(formatDurationForSpeech(step.volume.value), 300),
            SpeechPart("Go!", 400) >>
  ELSE IF step.type = "rest" THEN
    << SpeechPart("Rest for", Null),
       SpeechPart(formatDurationForSpeech(step.durationSeconds), 400) >>
  ELSE << >>

\* ----------------------------------------------------------------- actions
\* The workout texts the user types in the sessions followed here.
Pushups == PartsLine(<< "Pushups", Tok(10, "") >>, Null)
JogEachSide == PartsLine(<< "Jog", Tok(1, "s"), "each side" >>, Null)
RestLine == PartsLine(<< "Rest", Tok(1, "s") >>, Null)
LongRestLine == PartsLine(<< "Rest", Tok(20, "s") >>, Null)
BadLine == PartsLine(<< "Jog", Tok(1, "x") >>, Null)

Docs ==
  { << BlankLine >>,
    << CommentLine, BadLine >>,
    << Pushups, RestLine >>,
    << JogEachSide >> }

\* A workout with a step long enough for the halfway cue.
LongDocs == { << LongRestLine >> }
\* Workouts whose steps are entered with the time left already in the
\* countdown range.
CountdownDocs == { << RestLine, RestLine >>, << JogEachSide >> }
\* Workouts followed to their end, one of them with a step of 0 seconds.
RestZero == PartsLine(<< "Rest", Tok(0, "s") >>, Null)
LiveDocs == { << Pushups, RestLine >>, << JogEachSide >>, << Pushups, RestZero >> }

Horizon == 1000 + MaxGrains * GrainMs
PauseHorizon == 1000 + MaxPauseGrains * GrainMs
\* Time may also pass five seconds at once.
JumpMs == 10 * GrainMs
JumpHorizon == 1000 + MaxJumps * JumpMs
\* Time may also pass one second at once.
SecondMs == 2 * GrainMs
SecondHorizon == 1000 + MaxSeconds * SecondMs
LiveHorizon == 1000 + MaxLiveSeconds * SecondMs

NoSnap == [D |-> -1, E |-> -1, announcing |-> FALSE, skipped |-> FALSE]

\* Whether the speech sequence announcing the current Transition is still
\* awaited by announceCurrentStep.
AnnouncementAwaited ==
  /\ state.status \in {IN_PROGRESS, PAUSED}
  /\ getCurrentStep(state).type = "transition"
  /\ \E i \in 1..Len(pending) : pending[i] = state.stepEntryTime

SkipOps == {"skipToPrevExercise", "skipToNextExercise"}

NoOutput == [none |-> TRUE]

Bounded(w) == Len(w.pending) <= MaxPending

\* What lastOp.arg records about a text handed to Start.
DocClassOf(text) ==
  IF \E i \in 1..Len(text) : parseLine(text[i], i - 1).type = "error" THEN ":errors"
  ELSE IF \A i \in 1..Len(text) :
            parseLine(text[i], i - 1).type \in {"empty", "title", "header"}
    THEN ":nosteps"
  ELSE ":ok"

DocClasses == [text \in Docs \cup LongDocs \cup CountdownDocs \cup LiveDocs |-> DocClassOf(text)]
DocClass(text) == DocClasses[text]

\* Handlers that move to another step, stop or start: the pause snapshot no
\* longer describes the current step after them.
StepChangingOps ==
  {"startWorkout", "transitionToEditing", "skipToPrevExercise",
   "skipToNextExercise", "advanceToNextStep", "onTimerTick"}

PauseOps == {"togglePause"}

\* Commit the world w produced by handler `name`; lastOp is the name
\* of the function the handler calls, followed by arg.
CommitSession(w, name, arg) ==
  /\ state' = w.state
  /\ liveTimers' = w.liveTimers
  /\ speechQueue' = w.speechQueue
  /\ pending' = w.pending
  /\ wakeLock' = w.wakeLock
  /\ wakePending' = w.wakePending
  /\ isMuted' = w.isMuted
  /\ dom' = w.dom
  /\ errorBanner' = w.errorBanner
  /\ starts' = IF name = "startWorkout" /\ w.state.status = IN_PROGRESS
                 THEN starts + 1 ELSE starts
  /\ finishCount' = IF w.state.status = EDITING THEN 0
                    ELSE Min(2, finishCount + w.finished)
  /\ pauseSnap' =
       IF name \in PauseOps /\ state.status = IN_PROGRESS
         THEN [D |-> state.stepDuration, E |-> getStepElapsedMs(state, now) \div 1000,
               announcing |-> AnnouncementAwaited, skipped |-> FALSE]
       ELSE IF name \in SkipOps /\ state.status = PAUSED /\ w.state.status = PAUSED
         THEN [NoSnap EXCEPT !.skipped = TRUE]
       ELSE IF name \in StepChangingOps THEN NoSnap
       ELSE pauseSnap
  /\ lastOp' = name \o arg
  /\ UNCHANGED << now, input, output >>

Commit(w, name, arg) ==
  /\ CommitSession(w, name, arg)
  /\ UNCHANGED editorVars

Apply(w, name, arg) ==
  /\ Bounded(w)
  /\ Commit(w, name, arg)

\* Start with `text` in the editor: startWorkout saves the text to the store
\* before it compiles it.
ApplyStart(w, text, arg) ==
  /\ Bounded(w)
  /\ CommitSession(w, "startWorkout", arg)
  /\ inputText' = text
  /\ workoutStore' = saveCurrentWorkoutText(workoutStore, text)

WorkoutViewShown == dom.view = "workout"

\* Click on Start with one of the texts in the editor.
StartBtnClick ==
  \E text \in Docs :
    /\ dom.view = "editor"
    /\ DocClass(text) = ":ok" => starts < MaxStarts
    /\ ApplyStart(startWorkout(World, text, now), text, DocClass(text))

\* Click on Start with a long workout in the editor.
StartBtnClickLong ==
  \E text \in LongDocs :
    /\ dom.view = "editor"
    /\ DocClass(text) = ":ok" => starts < MaxStarts
    /\ ApplyStart(startWorkout(World, text, now), text, DocClass(text))

\* Click on Start with a workout of short timed steps in the editor.
StartBtnClickCountdown ==
  \E text \in CountdownDocs :
    /\ dom.view = "editor"
    /\ DocClass(text) = ":ok" => starts < MaxStarts
    /\ ApplyStart(startWorkout(World, text, now), text, DocClass(text))

\* Click on Start with one of the workouts followed to their end.
StartBtnClickLive ==
  \E text \in LiveDocs :
    /\ dom.view = "editor"
    /\ DocClass(text) = ":ok" => starts < MaxStarts
    /\ ApplyStart(startWorkout(World, text, now), text, DocClass(text))

StopBtnClick ==
  /\ WorkoutViewShown /\ ~dom.navDisabled
  /\ Apply(transitionToEditing(World), "transitionToEditing", ":" \o state.status)

PlayPauseBtnClick ==
  /\ WorkoutViewShown
  /\ Apply(togglePause(World, now), "togglePause", "")

\* The same click while the speech cancelled by a pause has not reported back:
\* the resume awaits a second announcement of the step.
PlayPauseBtnClickQuick ==
  /\ WorkoutViewShown
  /\ LET w == togglePause(World, now)
     IN /\ Len(w.pending) <= MaxAnnouncements
        /\ Commit(w, "togglePause", "")

PrevBtnClick ==
  /\ WorkoutViewShown /\ ~dom.navDisabled
  /\ Apply(skipToPrevExercise(World, now), "skipToPrevExercise", "")

NextBtnClick ==
  /\ WorkoutViewShown /\ ~dom.navDisabled
  /\ Apply(skipToNextExercise(World, now), "skipToNextExercise", "")

\* Click on the display container while it is tappable.
DisplayTap ==
  /\ WorkoutViewShown /\ dom.tappable
  /\ LET w == IF getCurrentStep(state).type = "transition"
                THEN cancelSpeechForNewSpeech(World) ELSE World
     IN Apply(advanceToNextStep(w, now), "advanceToNextStep", "")

\* The keydown handler, one action per key it reacts to.
KeyEnter ==
  /\ state.status # EDITING /\ dom.tappable
  /\ Apply(skipToNextExercise(World, now), "skipToNextExercise", "")

KeyEscape ==
  /\ state.status # EDITING
  /\ Apply(transitionToEditing(World), "transitionToEditing", ":" \o state.status)

KeySpace ==
  /\ state.status # EDITING
  /\ Apply(togglePause(World, now), "togglePause", "")

KeyArrowRight ==
  /\ state.status # EDITING
  /\ Apply(skipToNextExercise(World, now), "skipToNextExercise", "")

KeyArrowLeft ==
  /\ state.status # EDITING
  /\ Apply(skipToPrevExercise(World, now), "skipToPrevExercise", "")

MuteBtnClick ==
  /\ WorkoutViewShown
  /\ LET w == [World EXCEPT !.isMuted = ~@]
     IN Apply(IF w.isMuted THEN cancelSpeech(w) ELSE w, "MuteBtnClick", "")

\* The interval callback of a live tick timer.
TimerTick ==
  /\ liveTimers > 0
  /\ \E fault \in TickFaults :
       LET r == onTimerTick(World, now, fault)
       IN /\ (fault # "none" => r.raised = fault)
          /\ Apply(r.w, "onTimerTick",
                   IF r.raised # "none" THEN "!" \o r.raised
                   ELSE IF r.said > 0 THEN ":" \o ToString(r.said)
                   ELSE "")

\* A tick in which no call raises.
TimerTickNoFault ==
  /\ liveTimers > 0
  /\ LET r == onTimerTick(World, now, "none")
     IN Apply(r.w, "onTimerTick", IF r.said > 0 THEN ":" \o ToString(r.said) ELSE "")

\* The speech sequence awaited by one announceCurrentStep call settles.
AnnounceContinuation ==
  \E i \in 1..Len(pending) :
    LET ts == pending[i]
        rest == SubSeq(pending, 1, i - 1) \o SubSeq(pending, i + 1, Len(pending))
        stale == ts # state.stepEntryTime \/ state.status \in {EDITING, DONE}
    IN Apply(announceContinuation([World EXCEPT !.pending = rest], ts, now),
             "announceContinuation", IF stale THEN ":stale" ELSE "")

\* An utterance ends.
SpeechEnd ==
  /\ speechQueue > 0
  /\ Apply([World EXCEPT !.speechQueue = @ - 1], "SpeechEnd", "")

\* A wake-lock request settles: granted or refused.
WakeLockSettled ==
  /\ wakePending > 0
  /\ \E granted \in BOOLEAN :
       Apply([World EXCEPT !.wakePending = @ - 1,
                           !.wakeLock = IF granted THEN TRUE ELSE @],
             "WakeLockSettled", "")

\* The visibilitychange listener, the page having become visible.
VisibilityChange ==
  /\ state.status = IN_PROGRESS
  /\ wakePending < MaxWakePending
  /\ Apply(acquireScreenWakeLock(World), "VisibilityChange", "")

\* The auto-hide timeout of the error banner.
HideErrorTimeout ==
  /\ errorBanner # "none"
  /\ Apply(hideError(World), "HideErrorTimeout", "")

\* ---- the editor's workouts
\* The texts the user types and the records the page finds stored.
StoreTexts == { EmptyText, << Pushups >>, << RestLine >> }
StoredWorkouts == { << >>, << << Pushups >> >>, << << Pushups >>, << RestLine >> >> }
StoredIndexes ==
  { JsonMissing, JsonNull, JsonString("1"), JsonString("x") } \cup
  { JsonNumber(n) : n \in {-1, 0, 1, 5} }
PersistedRecords ==
  { NoRecord, MalformedRecord } \cup
  { ObjectRecord(FALSE, << >>, index) : index \in {JsonMissing, JsonNumber(0)} } \cup
  { ObjectRecord(TRUE, ws, index) : ws \in StoredWorkouts, index \in StoredIndexes }

\* Commit the editor e left by store function `name`.
CommitEditor(e, name) ==
  /\ workoutStore' = e.workoutStore
  /\ inputText' = e.inputText
  /\ lastOp' = name
  /\ UNCHANGED << state, liveTimers, speechQueue, pending, wakeLock, wakePending,
                  isMuted, dom, errorBanner, now, input, output, starts,
                  finishCount, pauseSnap >>

\* The page is loaded in the editor with some record stored: the store is
\* read and initializeEditor shows its current text.
PageLoad ==
  \E stored \in PersistedRecords :
    /\ state = createInitialState
    /\ LET store == loadWorkoutStore(stored)
       IN CommitEditor([workoutStore |-> store,
                        inputText |-> TextAt(store.workouts, store.currentIndex)],
                       "loadWorkoutStore")

\* The input listener of the editor: the user has changed the text.
InputTextInput ==
  \E text \in StoreTexts :
    /\ dom.view = "editor"
    /\ text # inputText
    /\ CommitEditor([workoutStore |-> saveCurrentWorkoutText(workoutStore, text),
                     inputText |-> text],
                    "saveCurrentWorkoutText")

NewWorkoutBtnClick ==
  /\ dom.view = "editor"
  /\ Len(workoutStore.workouts) < MaxWorkouts
  /\ CommitEditor(createNewWorkout(Editor), "createNewWorkout")

DeleteWorkoutBtnClick ==
  /\ dom.view = "editor"
  /\ CommitEditor(deleteCurrentWorkout(Editor), "deleteCurrentWorkout")

EditorPrevBtnClick ==
  /\ dom.view = "editor"
  /\ ~workoutStore.currentIndex.nan /\ workoutStore.currentIndex.n > 0
  /\ CommitEditor(switchToWorkout(Editor, JsNumber(workoutStore.currentIndex.n - 1)),
                  "switchToWorkout")

EditorNextBtnClick ==
  /\ dom.view = "editor"
  /\ ~workoutStore.currentIndex.nan
  /\ workoutStore.currentIndex.n < Len(workoutStore.workouts) - 1
  /\ CommitEditor(switchToWorkout(Editor, JsNumber(workoutStore.currentIndex.n + 1)),
                  "switchToWorkout")

\* Wall-clock time passes.  It is followed while a workout is on screen: in
\* the editor no code reads the clock before the next Start.
TimePasses(d) ==
  /\ now' = now + d
  /\ lastOp' = "AdvanceTime"
  /\ UNCHANGED << state, liveTimers, speechQueue, pending, wakeLock, wakePending,
                  isMuted, dom, errorBanner, input, output, starts, finishCount,
                  pauseSnap >>
  /\ UNCHANGED editorVars

AdvanceTime ==
  \E d \in TimeSteps :
    /\ state.status # EDITING
    /\ now + d <= Horizon
    /\ TimePasses(d)

AdvanceTimePause ==
  \E d \in TimeSteps :
    /\ state.status # EDITING
    /\ now + d <= PauseHorizon
    /\ TimePasses(d)

AdvanceTimeLong ==
  \E d \in {JumpMs} :
    /\ state.status # EDITING
    /\ now + d <= JumpHorizon
    /\ TimePasses(d)

AdvanceTimeSecond ==
  \E d \in {SecondMs} :
    /\ state.status # EDITING
    /\ now + d <= SecondHorizon
    /\ TimePasses(d)

\* A second passes while a timed step counts down and has time left.
AdvanceTimeLive ==
  \E d \in {SecondMs} :
    /\ state.status = IN_PROGRESS
    /\ state.stepResumedAt # 0
    /\ getStepTimeLeftS(state, now) > 0
    /\ now + d <= LiveHorizon
    /\ TimePasses(d)

\* ---------------------------------------------------------------- compiler
\* The lines the user types into the editor when the compiler is studied.
SectionLine == HashLine(2, "Legs")
SquatsEachSide == PartsLine(<< "Squats", Tok(12, ""), "each side" >>, "slow")
LungeEachSide == PartsLine(<< "Lunge", Tok(45, "s"), "each side" >>, "knee up")
RestBare == PartsLine(<< "Rest", Tok(10, "") >>, Null)
RestBareEachSide == PartsLine(<< "Rest", Tok(10, ""), "each side" >>, Null)
RestSecondsEachSide == PartsLine(<< "rest", Tok(10, "s"), "each side" >>, Null)
RestReps == PartsLine(<< "Rest", Tok(10, "reps") >>, Null)
RestBadVolume == PartsLine(<< "REST", Tok(1, "x"), "each side" >>, Null)
SquatsEmptyModifier == PartsLine(<< "Squats", Tok(10, ""), "" >>, Null)
TitleLine == HashLine(1, "Title")
JogSeconds == PartsLine(<< "Jog", Tok(30, "s") >>, Null)
OnePushup == PartsLine(<< "Pushup", Tok(1, "") >>, Null)

CompilerLines ==
  { BlankLine, CommentLine,
    HashLine(1, "Morning"), SectionLine, HashLine(3, "Deep"), HashLine(2, ""),
    Pushups, RestLine, BadLine, JogEachSide,
    SquatsEachSide, LungeEachSide,
    PartsLine(<< "Plank", Tok(1, "min") >>, "hold"),
    PartsLine(<< "Plank", Tok(30, "s"), "both sides" >>, Null),
    PartsLine(<< "Plank" >>, Null),
    RestBare, RestBareEachSide, RestSecondsEachSide, RestReps, RestBadVolume,
    SquatsEmptyModifier, TitleLine, JogSeconds, OnePushup }

\* The user types one more line at the end of the text.
TypeLine ==
  \E line \in CompilerLines :
    /\ Len(input) < MaxLines
    /\ input' = Append(input, line)
    /\ output' = NoOutput
    /\ lastOp' = "input"
    /\ UNCHANGED << state, liveTimers, speechQueue, pending, wakeLock, wakePending,
                    isMuted, dom, errorBanner, now, starts, finishCount, pauseSnap >>
    /\ UNCHANGED editorVars

\* The text is compiled.
Compile ==
  /\ output = NoOutput
  /\ output' = parseWorkout(input)
  /\ lastOp' = "parseWorkout"
  /\ UNCHANGED << state, liveTimers, speechQueue, pending, wakeLock, wakePending,
                  isMuted, dom, errorBanner, now, input, starts, finishCount,
                  pauseSnap >>
  /\ UNCHANGED editorVars

\* The overlay classifies the line typed last.
HighlightLine ==
  /\ output = NoOutput
  /\ input # << >>
  /\ output' = parseLine(input[Len(input)], Len(input) - 1)
  /\ lastOp' = "parseLine"
  /\ UNCHANGED << state, liveTimers, speechQueue, pending, wakeLock, wakePending,
                  isMuted, dom, errorBanner, now, input, starts, finishCount,
                  pauseSnap >>
  /\ UNCHANGED editorVars

\* The announcement script of one step of the compiled workout is built, as
\* announceCurrentStep does when the session stands on that step.
BuildStepSpeechParts ==
  /\ lastOp = "parseWorkout"
  /\ output.ok
  /\ \E i \in 0..(Len(output.data.steps) - 1) :
       LET s == [createInitialState EXCEPT !.workoutData = output.data,
                                           !.stepIndex = i]
       IN output' = [stepIndex |-> i,
                     parts |-> buildStepSpeechParts(getCurrentStep(s), s)]
  /\ lastOp' = "buildStepSpeechParts"
  /\ UNCHANGED << state, liveTimers, speechQueue, pending, wakeLock, wakePending,
                  isMuted, dom, errorBanner, now, input, starts, finishCount,
                  pauseSnap >>
  /\ UNCHANGED editorVars

\* The lexemes the user types into a duration when parseVolume is studied.
Lexemes ==
  {Num(1), Num(2), Sp, Comma} \cup
  {Word(w) : w \in RepsSuffixes \cup SecondSuffixes \cup MinuteSuffixes \cup {"x", "Min"}}

\* The user types one more lexeme at the end of the duration; a run of
\* digits, of whitespace or of letters is one lexeme.
TypeLexeme ==
  \E x \in Lexemes :
    /\ Len(input) < MaxTokens
    /\ input # << >> /\ x.k # "comma" => input[Len(input)].k # x.k
    /\ input' = Append(input, x)
    /\ output' = NoOutput
    /\ lastOp' = "input"
    /\ UNCHANGED << state, liveTimers, speechQueue, pending, wakeLock, wakePending,
                    isMuted, dom, errorBanner, now, starts, finishCount, pauseSnap >>
    /\ UNCHANGED editorVars

\* The duration is parsed.
ParseVolume ==
  /\ output = NoOutput
  /\ output' = parseVolume(input)
  /\ lastOp' = "parseVolume"
  /\ UNCHANGED << state, liveTimers, speechQueue, pending, wakeLock, wakePending,
                  isMuted, dom, errorBanner, now, input, starts, finishCount,
                  pauseSnap >>
  /\ UNCHANGED editorVars

Init ==
  /\ state = createInitialState
  /\ liveTimers = 0
  /\ speechQueue = 0
  /\ pending = << >>
  /\ wakeLock = FALSE
  /\ wakePending = 0
  /\ isMuted = FALSE
  /\ dom = [view |-> "editor", tappable |-> FALSE, navDisabled |-> FALSE]
  /\ errorBanner = "none"
  /\ now = 1000
  /\ input = << >>
  /\ output = NoOutput
  /\ workoutStore = loadWorkoutStore(NoRecord)
  /\ inputText = DEFAULT_WORKOUT
  /\ starts = 0
  /\ finishCount = 0
  /\ pauseSnap = NoSnap
  /\ lastOp = "init"

Next ==
  \/ StartBtnClick
  \/ StopBtnClick
  \/ PlayPauseBtnClick
  \/ PrevBtnClick
  \/ NextBtnClick
  \/ DisplayTap
  \/ KeyEnter
  \/ KeyEscape
  \/ KeySpace
  \/ KeyArrowRight
  \/ KeyArrowLeft
  \/ MuteBtnClick
  \/ TimerTick
  \/ AnnounceContinuation
  \/ SpeechEnd
  \/ WakeLockSettled
  \/ VisibilityChange
  \/ HideErrorTimeout
  \/ AdvanceTime

Spec == Init /\ [][Next]_vars

\* The session alone: the handlers that read or write the Session State,
\* the tick timer and the pending continuations.  The environment steps left
\* out (mute, utterance end, wake-lock settlement, visibility change, banner
\* timeout) write only speechQueue, isMuted, wakeLock, wakePending and
\* errorBanner, which no handler reads when it updates the session.
NextSession ==
  \/ StartBtnClick
  \/ StopBtnClick
  \/ PlayPauseBtnClick
  \/ PrevBtnClick
  \/ NextBtnClick
  \/ DisplayTap
  \/ KeyEnter
  \/ KeyEscape
  \/ KeySpace
  \/ KeyArrowRight
  \/ KeyArrowLeft
  \/ TimerTick
  \/ AnnounceContinuation
  \/ AdvanceTime

SpecSession == Init /\ [][NextSession]_vars

\* Pausing and resuming over a longer stretch of time, with the ways a step
\* is entered and left while the workout runs.
NextPause ==
  \/ StartBtnClick
  \/ PlayPauseBtnClick
  \/ KeySpace
  \/ DisplayTap
  \/ TimerTick
  \/ AnnounceContinuation
  \/ AdvanceTimePause

SpecPause == Init /\ [][NextPause]_vars

\* The session with the speech engine and the wake lock, at one instant.
NextDevices ==
  \/ StartBtnClick
  \/ StopBtnClick
  \/ PlayPauseBtnClick
  \/ PrevBtnClick
  \/ NextBtnClick
  \/ DisplayTap
  \/ KeyEscape
  \/ MuteBtnClick
  \/ TimerTick
  \/ AnnounceContinuation
  \/ SpeechEnd
  \/ WakeLockSettled
  \/ VisibilityChange

SpecDevices == Init /\ [][NextDevices]_vars

\* Narration over a long step.
NextNarration ==
  \/ StartBtnClickLong
  \/ PlayPauseBtnClick
  \/ MuteBtnClick
  \/ TimerTick
  \/ SpeechEnd
  \/ AdvanceTimeLong

SpecNarration == Init /\ [][NextNarration]_vars

\* Skipping backward and forward over the stretch of time of the breakpoint
\* threshold.
NextRewind ==
  \/ StartBtnClick
  \/ PrevBtnClick
  \/ KeyArrowLeft
  \/ NextBtnClick
  \/ PlayPauseBtnClick
  \/ TimerTick
  \/ AnnounceContinuation
  \/ AdvanceTimeSecond

SpecRewind == Init /\ [][NextRewind]_vars

\* The countdown of short timed steps, entered by start, skip and resume.
NextCountdown ==
  \/ StartBtnClickCountdown
  \/ PlayPauseBtnClick
  \/ NextBtnClick
  \/ TimerTick
  \/ AnnounceContinuation
  \/ AdvanceTimeLong

SpecCountdown == Init /\ [][NextCountdown]_vars

\* A workout left to run to its end: the ticks keep firing, every awaited
\* announcement completes, the user taps when the display can be tapped and
\* the clock runs while a step counts down; nobody pauses, stops or skips.
NextLive ==
  \/ StartBtnClickLive
  \/ TimerTickNoFault
  \/ AnnounceContinuation
  \/ DisplayTap
  \/ AdvanceTimeLive

SpecLive ==
  /\ Init
  /\ [][NextLive]_vars
  /\ WF_vars(TimerTickNoFault)
  /\ WF_vars(AnnounceContinuation)
  /\ WF_vars(DisplayTap)
  /\ WF_vars(AdvanceTimeLive)

\* A pause followed at once by a resume, before the cancelled speech has
\* reported back.
NextResume ==
  \/ StartBtnClick
  \/ PlayPauseBtnClickQuick
  \/ TimerTick
  \/ AnnounceContinuation
  \/ AdvanceTimeSecond

SpecResume == Init /\ [][NextResume]_vars

\* The editor's workouts: the page loaded with a stored record, texts typed,
\* workouts created, deleted and switched.
NextStore ==
  \/ PageLoad
  \/ InputTextInput
  \/ NewWorkoutBtnClick
  \/ DeleteWorkoutBtnClick
  \/ EditorPrevBtnClick
  \/ EditorNextBtnClick

SpecStore == Init /\ [][NextStore]_vars

\* The workout compiler alone, over the texts of up to MaxLines lines.
NextCompiler ==
  \/ TypeLine
  \/ Compile
  \/ HighlightLine

SpecCompiler == Init /\ [][NextCompiler]_vars

\* The announcement scripts of the steps of the compiled workouts.
NextScript ==
  \/ TypeLine
  \/ Compile
  \/ BuildStepSpeechParts

SpecScript == Init /\ [][NextScript]_vars

\* parseVolume alone, over the durations of up to MaxTokens lexemes.
NextVolume ==
  \/ TypeLexeme
  \/ ParseVolume

SpecVolume == Init /\ [][NextVolume]_vars

\* ---------------------------------------------------------------- properties
\* Whether a step is a Transition, a Rest or a reps-based Exercise.
IsSkipTarget(step) ==
  \/ step.type \in {"transition", "rest"}
  \/ (step.type = "exercise" /\ step.volume.unit = "reps")

JustResumed ==
  /\ lastOp = "togglePause"
  /\ state.status = IN_PROGRESS
  /\ pauseSnap # NoSnap
  /\ pauseSnap.D > 0

\* C1 (as stated): right after the resume that follows a pause of a timed
\* step of duration D at floor(elapsed seconds) E, the time left is D - E.
C1_ResumeTimeLeftIsDMinusE ==
  JustResumed => getStepTimeLeftS(state, now) = pauseSnap.D - pauseSnap.E

\* C1 (amended): right after the resume that follows a pause of a timed
\* step of duration D at floor(elapsed seconds) E, the time left is D - E
\* when E <= D and 0 when the step had overrun its duration (E > D),
\* whatever time was spent paused.
C1_ResumeTimeLeftClamped ==
  JustResumed =>
    getStepTimeLeftS(state, now) =
      IF pauseSnap.E <= pauseSnap.D THEN pauseSnap.D - pauseSnap.E ELSE 0

\* C1 witness: a resume after a pause that lasted some time, taken at one
\* full elapsed second or more of a step with time left.
C1_ResumedAfterDelay ==
  /\ JustResumed
  /\ pauseSnap.E >= 1
  /\ pauseSnap.E < pauseSnap.D
  /\ state.totalPausedMs > 0

\* C2: Skip Forward from InProgress or Paused moves to the nearest later
\* step that is a Transition, a Rest or a reps-based Exercise and keeps the
\* status, or moves to Done when no such step remains.
C2_SkipForwardLandsOnBreakpoint ==
  [][ (lastOp' = "skipToNextExercise" /\ state.status \in {IN_PROGRESS, PAUSED}) =>
        LET ss == steps(state)
            later == { j \in (state.stepIndex + 1)..(Len(ss) - 1) : IsSkipTarget(ss[j + 1]) }
        IN IF later = {}
             THEN state'.status = DONE
             ELSE /\ state'.stepIndex = CHOOSE j \in later : \A k \in later : j <= k
                  /\ state'.status = state.status
                  /\ steps(state') = ss
                  /\ IsSkipTarget(getCurrentStep(state')) ]_vars

\* C2 witness: a Skip Forward while Paused that passed over a seconds-based
\* Exercise and landed on the Transition after it.
C2_SkippedOverTimedExercise ==
  /\ lastOp = "skipToNextExercise"
  /\ state.status = PAUSED
  /\ state.stepIndex = 2
  /\ steps(state)[2].type = "exercise"
  /\ steps(state)[2].volume.unit = "seconds"

\* C3: Done has the tick timer stopped, and Finish is performed at most once
\* for the workout on screen.
C3_FinishedOnce ==
  /\ (state.status = DONE => liveTimers = 0)
  /\ finishCount <= 1

\* C4: a Start on a text that compiles to zero steps shows the no-steps
\* error and leaves status Editing, with no tick timer, no step entered, no
\* announcement spoken and no wake-lock request made.
C4_NoStepsStartFails ==
  [][ lastOp' = "startWorkout:nosteps" =>
        /\ state.status = EDITING
        /\ state'.status = EDITING
        /\ errorBanner' = "nosteps"
        /\ liveTimers' = 0
        /\ ~state'.mainTimer
        /\ speechQueue' = speechQueue
        /\ pending' = pending
        /\ wakePending' = wakePending
        /\ state'.stepEntryTime = state.stepEntryTime
        /\ state'.stepIndex = state.stepIndex
        /\ dom' = dom ]_vars

\* C4 witness: a Start on a text without steps has just failed.
C4_NoStepsStartHappened ==
  /\ lastOp = "startWorkout:nosteps"
  /\ steps(state) = << >>
  /\ errorBanner = "nosteps"

\* C5: the number of live interval timers is 0 or 1.
C5_AtMostOneTimer == liveTimers \in {0, 1}

\* C5 witness: a resume that announced the step, where the announcement
\* started the timer and the resume started it again.
C5_TimerRestartedOnResume ==
  /\ lastOp = "togglePause"
  /\ state.status = IN_PROGRESS
  /\ state.stepAnnounced
  /\ getCurrentStep(state).type # "transition"
  /\ speechQueue > 0
  /\ liveTimers = 1

\* C6: a speech-completion callback for a step the session has left (other
\* entry time, or status Editing or Done) changes no field of the Session
\* State and not the tick timer.
C6_StaleContinuationIsNoOp ==
  [][ lastOp' = "announceContinuation:stale" =>
        /\ state' = state
        /\ liveTimers' = liveTimers ]_vars

\* C7: no two announcements are in the speech queue at once.
C7_NoOverlappingSpeech == speechQueue <= 1

\* C8: after a tick in which a call raised, status is Editing, the error is
\* shown and the tick timer is stopped.
C8_TickFaultCaught ==
  lastOp \in {"onTimerTick!countdown", "onTimerTick!display", "onTimerTick!advance"} =>
    /\ state.status = EDITING
    /\ errorBanner = "timer"
    /\ liveTimers = 0

\* C9: after Stop from InProgress, Paused or Done, status is Editing, the
\* tick timer is cleared, the speech queue is empty and no wake lock is held.
C9_StopReleasesEverything ==
  lastOp \in {"transitionToEditing:" \o IN_PROGRESS,
              "transitionToEditing:" \o PAUSED,
              "transitionToEditing:" \o DONE} =>
    /\ state.status = EDITING
    /\ liveTimers = 0
    /\ ~state.mainTimer
    /\ speechQueue = 0
    /\ ~wakeLock
    /\ dom.view = "editor"

\* C9 witness: Stop has just run on a finished workout.
C9_StoppedFromDone ==
  /\ lastOp = "transitionToEditing:" \o DONE
  /\ state.status = EDITING
  /\ state.stepIndex = Len(steps(state)) - 1

\* C10: the progress percentage is within [0,100], is 100 in Done, and
\* otherwise is 100 times the Exercise steps before stepIndex over all
\* Exercise steps (0 when the workout has no Exercise step).
C10_ProgressCountsExercises ==
  LET pct == computeProgressPercent(state)
      ss == steps(state)
      total == Cardinality({ i \in 1..Len(ss) : ss[i].type = "exercise" })
      done == Cardinality({ i \in 1..Len(ss) :
                              i <= state.stepIndex /\ ss[i].type = "exercise" })
  IN /\ pct.den > 0
     /\ 0 <= pct.num
     /\ pct.num <= 100 * pct.den
     /\ (state.status = DONE => pct.num = 100 * pct.den)
     /\ (state.status # DONE /\ total > 0 => pct.num * total = 100 * done * pct.den)
     /\ (state.status # DONE /\ total = 0 => pct.num = 0)

\* C10 witness: half of the exercises are behind the current step, which
\* follows a Transition.
C10_HalfWay ==
  /\ state.status = IN_PROGRESS
  /\ state.stepIndex = 2
  /\ computeProgressPercent(state) = [num |-> 100, den |-> 2]

\* ------------------------------------------------------ compiler properties
Compiled == lastOp = "parseWorkout" /\ output # NoOutput
Highlighted == lastOp = "parseLine" /\ output # NoOutput

\* The 1-based numbers of the lines of the text classified as error.
ErrorLines == {i \in 1..Len(input) : parseLine(input[i], i - 1).type = "error"}

\* The last line of the text, and the section in force where it stands: the
\* name of the closest section header above it.
LastLine == input[Len(input)]
HeadersAbove ==
  {i \in 1..(Len(input) - 1) : input[i].form = "hash" /\ input[i].hashes = 2}
SectionAtLastLine ==
  IF HeadersAbove = {} THEN Null
  ELSE input[CHOOSE i \in HeadersAbove : \A j \in HeadersAbove : j <= i].name

\* C11: a compilation of a text with k lines in error fails with exactly k
\* messages, one per offending line in document order, each carrying the
\* number (index + 1) of its line, and yields a workout only when k = 0.
C11_AllErrorsReported ==
  Compiled =>
    /\ output.ok <=> ErrorLines = {}
    /\ ~output.ok =>
         /\ Len(output.errors) = Cardinality(ErrorLines)
         /\ \A j \in 1..Len(output.errors) : output.errors[j] \in ErrorLines
         /\ \A j \in 1..(Len(output.errors) - 1) :
              output.errors[j] < output.errors[j + 1]
    /\ output.ok => DOMAIN output.data = {"title", "steps"}

\* C11 witness: a text with two lines in error has been compiled.
C11_TwoErrorsReported ==
  Compiled /\ Cardinality(ErrorLines) = 2 /\ ~output.ok

\* Whether a line is an exercise line with the "each side" modifier whose
\* volume has the given unit.
IsRestName(name) == name \in {"rest", "Rest", "REST"}
EachSideLine(line, unit) ==
  /\ line.form = "parts"
  /\ Len(line.parts) = 3
  /\ line.parts[3] = "each side"
  /\ ~IsRestName(line.parts[1])
  /\ parseVolume(line.parts[2]) # VolumeError
  /\ parseVolume(line.parts[2]).unit = unit

\* The steps compiled from the text without its last line, and the steps the
\* last line added to them.
StepsBeforeLastLine ==
  parseWorkout(SubSeq(input, 1, Len(input) - 1)).data.steps
StepsOfLastLine ==
  SubSeq(output.data.steps, Len(StepsBeforeLastLine) + 1, Len(output.data.steps))
CompiledWithLastLine(unit) ==
  Compiled /\ output.ok /\ input # << >> /\ EachSideLine(LastLine, unit)

\* C12: an "each side" exercise line with a volume in seconds adds exactly
\* four steps to the workout, in the order Transition(changeExercises),
\* Exercise(left), Transition(changeSides), Exercise(right); both Exercise
\* steps carry the name, volume and notes of the line and the section in force.
C12_EachSideSecondsFourSteps ==
  CompiledWithLastLine("seconds") =>
    LET st == StepsOfLastLine
        volume == parseVolume(LastLine.parts[2])
    IN /\ SubSeq(output.data.steps, 1, Len(StepsBeforeLastLine)) = StepsBeforeLastLine
       /\ Len(st) = 4
       /\ st[1].type = "transition" /\ st[1].kind = "changeExercises"
       /\ st[2] = Exercise(LastLine.parts[1], volume, "left", LastLine.notes,
                           SectionAtLastLine)
       /\ st[3].type = "transition" /\ st[3].kind = "changeSides"
       /\ st[4] = Exercise(LastLine.parts[1], volume, "right", LastLine.notes,
                           SectionAtLastLine)

\* C12 witness: a 45 s "each side" line with notes has been compiled under a
\* section header.
C12_LungeUnderSection ==
  /\ CompiledWithLastLine("seconds")
  /\ LastLine = LungeEachSide
  /\ SectionAtLastLine = "Legs"

RestLineForm(line) ==
  /\ line.form = "parts"
  /\ Len(line.parts) \in {2, 3}
  /\ IsRestName(line.parts[1])

\* C14: the text made of the line "Rest | 10" compiles without error to a
\* single Rest step of 10 seconds.
C14_RestBareNumberCompiles ==
  Compiled /\ input = << RestBare >> =>
    /\ output.ok
    /\ output.data.steps = << Rest(10, Null, Null) >>

\* C15: a rest line with a third part is classified as an error of kind
\* modifier and stepType rest, "Rest | 10 | each side" among them.
C15_RestThirdPartIsModifierError ==
  /\ Highlighted /\ RestLineForm(LastLine) /\ Len(LastLine.parts) = 3
      /\ parseVolume(LastLine.parts[2]) # VolumeError
       => output = ParsedError("modifier", "rest")
  /\ Highlighted /\ LastLine = RestBareEachSide => output.kind = "modifier"

\* C16: a rest line whose volume parses as reps is classified as an error of
\* kind duration, and every Rest step of a compiled workout comes from a rest
\* line with a volume in seconds and lasts that many seconds.
C16_RestRepsIsDurationError ==
  /\ Highlighted /\ RestLineForm(LastLine)
      /\ parseVolume(LastLine.parts[2]) # VolumeError
      /\ parseVolume(LastLine.parts[2]).unit = "reps"
       => output = ParsedError("duration", "rest")
  /\ Compiled /\ output.ok =>
       \A i \in 1..Len(output.data.steps) :
         LET step == output.data.steps[i] IN
         step.type = "rest" =>
           \E j \in 1..Len(input) :
             /\ RestLineForm(input[j])
             /\ parseVolume(input[j].parts[2]) = Volume(step.durationSeconds, "seconds")

\* C16 witness: "Rest | 10 reps" has been classified.
C16_RestRepsClassified ==
  Highlighted /\ LastLine = RestReps /\ output.type = "error"

\* ------------------------------------------------------- duration grammar
ParsedVolume == lastOp = "parseVolume" /\ output # NoOutput

\* The unit words of a grammar table: after a number alone (reps, seconds,
\* minutes) and in the combined minutes-and-seconds form.
StatedForms ==
  [reps |-> {"rep", "reps"},
   seconds |-> {"s", "sec", "second", "seconds"},
   minutes |-> {"m", "min", "minute", "minutes"},
   combinedMinutes |-> {"m"},
   combinedSeconds |-> {"s"}]
AcceptedForms ==
  [reps |-> {"rep", "reps"},
   seconds |-> {"s", "sec", "secs", "second", "seconds"},
   minutes |-> {"m", "min", "mins", "minute", "minutes"},
   combinedMinutes |-> {"m", "min", "mins", "minute", "minutes"},
   combinedSeconds |-> {"s", "sec", "secs", "second", "seconds"}]

\* The seconds a fragment stands for when it has one of the time forms of a
\* table, -1 when it has none.  Whitespace around the fragment and between
\* its numbers and unit words does not count.
TimeFormSeconds(fragment, forms) ==
  LET c == withoutSpace(fragment) IN
  IF kinds(c) = << "num", "word" >> /\ c[2].w \in forms.seconds THEN c[1].n
  ELSE IF kinds(c) = << "num", "word" >> /\ c[2].w \in forms.minutes THEN 60 * c[1].n
  ELSE IF /\ kinds(c) = << "num", "word", "num", "word" >>
          /\ c[2].w \in forms.combinedMinutes
          /\ c[4].w \in forms.combinedSeconds
    THEN 60 * c[1].n + c[3].n
  ELSE -1

RECURSIVE SumOfFragments(_, _)
SumOfFragments(fragments, forms) ==
  IF fragments = << >> THEN 0
  ELSE TimeFormSeconds(Head(fragments), forms) + SumOfFragments(Tail(fragments), forms)

\* What a grammar table gives for a duration, letters read in lower case.
GrammarTable(duration, forms) ==
  LET d == toLowerCase(duration)
      c == withoutSpace(d)
      fragments == splitComma(d, << >>)
  IN IF Len(fragments) = 1 THEN
       IF kinds(trim(d)) = << "num" >> THEN Volume(trim(d)[1].n, "reps")
       ELSE IF kinds(c) = << "num", "word" >> /\ c[2].w \in forms.reps
         THEN Volume(c[1].n, "reps")
       ELSE IF TimeFormSeconds(d, forms) >= 0
         THEN Volume(TimeFormSeconds(d, forms), "seconds")
       ELSE VolumeError
     ELSE IF \A i \in 1..Len(fragments) : TimeFormSeconds(fragments[i], forms) >= 0
       THEN Volume(SumOfFragments(fragments, forms), "seconds")
     ELSE VolumeError

ResumedSameStep ==
  /\ lastOp = "togglePause"
  /\ state.status = IN_PROGRESS
  /\ pauseSnap.D >= 0

\* Right after the resume that follows a skip made while Paused.
ResumedAfterPausedSkip ==
  /\ lastOp = "togglePause"
  /\ state.status = IN_PROGRESS
  /\ pauseSnap.skipped

\* C18: a resume announces the step again exactly when the pause came while
\* the announcement of the step (here: of a Transition) was still awaited;
\* otherwise the resume starts no speech, stamps stepResumedAt with the
\* current time and restarts the tick timer.
C18_ResumeReannouncesUnfinished ==
  ResumedSameStep /\ getCurrentStep(state).type = "transition" =>
    /\ pauseSnap.announcing <=> speechQueue > 0
    /\ ~pauseSnap.announcing =>
         /\ speechQueue = 0
         /\ state.stepResumedAt = now
         /\ liveTimers = 1

\* C19: a skip made while Paused that does not end the workout leaves the
\* status Paused, the tick timer stopped, no speech started, stepElapsedMs = 0
\* and stepResumedAt = 0; and the resume that follows it announces the newly
\* selected step and starts the timer, whatever callbacks ran in between.
C19_PausedSkipDefersToResume ==
  /\ lastOp \in SkipOps /\ state.status = PAUSED =>
       /\ liveTimers = 0
       /\ speechQueue = 0
       /\ state.stepElapsedMs = 0
       /\ state.stepResumedAt = 0
  /\ ResumedAfterPausedSkip =>
       /\ speechQueue > 0
       /\ liveTimers = 1

\* C20: while the session is InProgress on a Transition whose announcement
\* has not completed (its speech sequence is still awaited, or the step was
\* selected while Paused and the session has only just resumed),
\* stepResumedAt is 0 and the time left is the full duration of the step.
C20_CountdownWaitsForAnnouncement ==
  /\ state.status = IN_PROGRESS
  /\ getCurrentStep(state).type = "transition"
  /\ (AnnouncementAwaited \/ ResumedAfterPausedSkip)
  => /\ state.stepResumedAt = 0
     /\ getStepTimeLeftS(state, now) = state.stepDuration

\* ------------------------------------------------------------------- ticks
\* The ticks whose handler ran to its end: no call of it raised, or only the
\* unawaited countdown announcement did.
CountdownTicks == {"onTimerTick:1", "onTimerTick:2", "onTimerTick:3"}
CompletedTicks == {"onTimerTick", "onTimerTick!countdown"} \cup CountdownTicks

\* C21: a tick advances (moves stepIndex or the status) exactly when
\* stepDuration > 0 and the time left has reached 0; on a step with
\* stepDuration = 0 no tick changes stepIndex or the status.
C21_TickAdvancesAtZero ==
  [][lastOp' \in CompletedTicks =>
       ((state'.stepIndex # state.stepIndex \/ state'.status # state.status)
          <=> (state.stepDuration > 0 /\ getStepTimeLeftS(state, now) = 0))]_vars

\* C21 witness: a tick has run on a reps-based Exercise that had been on
\* screen for a second or more, and left it in place.
C21_TickOnRepsExercise ==
  /\ lastOp = "onTimerTick"
  /\ state.status = IN_PROGRESS
  /\ state.stepDuration = 0
  /\ getCurrentStep(state).type = "exercise"
  /\ now - state.stepEntryTime >= 1000

\* ----------------------------------------------------------- skip backward
\* The nearest breakpoint step before the current one, 0 when there is none.
EarlierBreakpoints ==
  {i \in 0..(state.stepIndex - 1) : IsSkipTarget(steps(state)[i + 1])}
NearestEarlierBreakpoint ==
  IF EarlierBreakpoints = {} THEN 0
  ELSE CHOOSE i \in EarlierBreakpoints : \A j \in EarlierBreakpoints : j <= i

SecondsSinceEntry == (now - state.stepEntryTime) \div 1000

\* C22: a Skip Backward made less than the threshold (2 s) after the entry of
\* the current step moves stepIndex to the nearest earlier breakpoint step
\* (0 when there is none); made at or after the threshold it leaves stepIndex
\* unchanged and restarts the step: elapsed time 0 and the full duration left.
C22_SkipBackwardByThreshold ==
  [][lastOp' = "skipToPrevExercise" =>
       /\ SecondsSinceEntry < 2 => state'.stepIndex = NearestEarlierBreakpoint
       /\ SecondsSinceEntry >= 2 =>
            /\ state'.stepIndex = state.stepIndex
            /\ state'.stepElapsedMs = 0
            /\ state'.stepDuration = getStepDuration(getCurrentStep(state))
            /\ getStepTimeLeftS(state', now') = state'.stepDuration]_vars

\* C22 witness: a Skip Backward has restarted a step other than the first
\* one, entered two seconds before.
C22_RestartedLaterStep ==
  /\ lastOp = "skipToPrevExercise"
  /\ state.status = IN_PROGRESS
  /\ state.stepIndex > 0
  /\ state.stepEntryTime = now
  /\ now >= 1000 + 2 * SecondMs

\* ------------------------------------------------------------ status edges
\* The status changes the state machine names: start, pause and resume,
\* finish, back from Done, and any status to Editing (stop or tick error).
StatusEdges ==
  {<<EDITING, IN_PROGRESS>>, <<IN_PROGRESS, PAUSED>>, <<PAUSED, IN_PROGRESS>>,
   <<IN_PROGRESS, DONE>>, <<DONE, EDITING>>}
    \cup {<<s, EDITING>> : s \in {IN_PROGRESS, PAUSED, DONE}}

\* C23: the status changes only along the edges Editing -> InProgress,
\* InProgress <-> Paused, InProgress -> Done, Done -> Editing and any status
\* -> Editing; in particular Done is entered only from InProgress and Editing
\* never moves directly to Paused or Done.
C23_StatusChangesAlongEdges ==
  [][state'.status # state.status =>
       <<state.status, state'.status>> \in StatusEdges]_vars

\* ---------------------------------------------------------------- idle tick
\* The step is not actively ticking.
NotTicking == state.status # IN_PROGRESS \/ state.stepResumedAt = 0

\* C24: a tick that fires while the status is not InProgress, or while
\* stepResumedAt = 0, leaves every field of the session state unchanged and
\* announces nothing: no step advance, no update of lastAnnouncedSecond, no
\* speech queued and no announcement awaited.
C24_IdleTickChangesNothing ==
  [][lastOp' \in CompletedTicks /\ NotTicking =>
       /\ state' = state
       /\ speechQueue' = speechQueue
       /\ pending' = pending]_vars

\* C24 witness: a tick has run while the announcement of a Transition was
\* still awaited, its countdown not yet started.
C24_TickedWhileAnnouncing ==
  /\ lastOp = "onTimerTick"
  /\ state.status = IN_PROGRESS
  /\ state.stepResumedAt = 0
  /\ getCurrentStep(state).type = "transition"
  /\ state.lastAnnouncedSecond = -1

\* ---------------------------------------------------------- exercise lines
\* Whether a line is an exercise line (its name is not "rest") with the given
\* number of parts and a valid volume.
ExerciseLineForm(line, n) ==
  /\ line.form = "parts"
  /\ Len(line.parts) = n
  /\ ~IsRestName(line.parts[1])
  /\ parseVolume(line.parts[2]) # VolumeError

\* C25: an exercise line with a valid volume and a third part that is not
\* exactly "each side" is classified as an error of kind modifier and
\* stepType exercise, the empty third part of "Squats | 10 |" included.
C25_ThirdPartIsEachSideOrError ==
  Highlighted /\ ExerciseLineForm(LastLine, 3) /\ LastLine.parts[3] # "each side"
    => output = ParsedError("modifier", "exercise")

Scripted == lastOp = "buildStepSpeechParts"
ScriptedSteps == parseWorkout(input).data.steps
ScriptedStep == ScriptedSteps[output.stepIndex + 1]
ScriptTexts == [j \in 1..Len(output.parts) |-> output.parts[j].text]

\* The first Exercise or Rest step after the scripted one.
LaterExerciseOrRest ==
  {j \in (output.stepIndex + 2)..Len(ScriptedSteps) :
     ScriptedSteps[j].type \in {"exercise", "rest"}}
FirstLaterExerciseOrRest ==
  ScriptedSteps[CHOOSE j \in LaterExerciseOrRest : \A k \in LaterExerciseOrRest : j <= k]

\* C27: the script of a Transition step is one phrase built from the first
\* Exercise or Rest step after it: "Get ready for <name>" for
\* changeExercises, with "on the <side> side" when that Exercise is left or
\* right, and "Switch to the <side> side" for changeSides.
C27_TransitionScriptLooksAhead ==
  Scripted /\ ScriptedStep.type = "transition" =>
    /\ LaterExerciseOrRest # {}
    /\ LET next == FirstLaterExerciseOrRest IN
       /\ ScriptedStep.kind = "changeExercises" =>
            ScriptTexts =
              << "Get ready for " \o next.name \o
                   (IF next.side \in {"left", "right"}
                      THEN " on the " \o next.side \o " side" ELSE "") >>
       /\ ScriptedStep.kind = "changeSides" =>
            ScriptTexts = << "Switch to the " \o next.side \o " side" >>

\* C27 witness: the script of the Transition before the second exercise line
\* of a text has been built.
C27_SecondExerciseAnnounced ==
  /\ Scripted
  /\ ScriptedStep.type = "transition"
  /\ ScriptedStep.kind = "changeExercises"
  /\ output.stepIndex >= 2
  /\ ScriptedSteps[1].type = "transition"
  /\ FirstLaterExerciseOrRest.name # ScriptedSteps[2].name

\* The phrase stating a number of reps.
RepCount(n) == ToString(n) \o (IF n = 1 THEN " rep" ELSE " reps")

\* C28: the script of a reps-based Exercise ends with the rep count, "1 rep"
\* for one and "N reps" otherwise, followed by "on each side" exactly when
\* the side is each, then "Go!", then "Tap when done"; the script of a
\* seconds-based Exercise is the duration, then "Go!".
C28_ExerciseScript ==
  Scripted /\ ScriptedStep.type = "exercise" =>
    /\ ScriptedStep.volume.unit = "reps" =>
         /\ Len(ScriptTexts) >= 3
         /\ SubSeq(ScriptTexts, Len(ScriptTexts) - 2, Len(ScriptTexts)) =
              << RepCount(ScriptedStep.volume.value) \o
                   (IF ScriptedStep.side = "each" THEN " on each side" ELSE ""),
                 "Go!", "Tap when done" >>
    /\ ScriptedStep.volume.unit = "seconds" =>
         ScriptTexts = << formatDurationForSpeech(ScriptedStep.volume.value), "Go!" >>

\* ---------------------------------------------------------------- countdown
\* The current step has just been entered and no tick has run on it since:
\* the last operation started the workout, skipped to the step while the
\* workout ran, or resumed the workout after a skip made while Paused.
EnteredUnticked ==
  \/ lastOp \in {"startWorkout:ok", "skipToNextExercise"}
  \/ ResumedAfterPausedSkip

\* The last operation was a tick that ran on the current step, at this
\* instant: the time left is what that tick observed.
TickedThisInstant == lastOp \in CompletedTicks /\ state.stepEntryTime < now

\* C29: on a timed step, however it was entered, a tick that observes the
\* time left newly equal to k in {1,2,3} announces k, and a tick announces no
\* number when the time left is what the previous tick observed or is
\* outside {1,2,3}.
C29_CountdownOnNewSecond ==
  [][/\ lastOp' \in {"onTimerTick"} \cup CountdownTicks
     /\ state.status = IN_PROGRESS
     /\ state.stepResumedAt # 0
     /\ state.stepDuration > 0
     /\ ~isMuted
     => LET k == getStepTimeLeftS(state, now) IN
        /\ EnteredUnticked /\ k \in 1..3 => lastOp' = "onTimerTick:" \o ToString(k)
        /\ TickedThisInstant \/ k \notin 1..3 => lastOp' = "onTimerTick"
        /\ lastOp' \in CountdownTicks => lastOp' = "onTimerTick:" \o ToString(k)]_vars

\* ------------------------------------------------------------ stepResumedAt
\* C30: stepResumedAt is 0 whenever the current step is not actively
\* ticking: in every state whose status is Paused, Editing or Done.
C30_ResumedAtZeroUnlessInProgress ==
  state.status \in {PAUSED, EDITING, DONE} => state.stepResumedAt = 0

\* ----------------------------------------------------------- pauseStartTime
\* C31: pauseStartTime is non-zero only while the session is Paused: it is 0
\* in every state whose status is Editing, InProgress or Done.
C31_PauseStartZeroUnlessPaused ==
  state.status \in {EDITING, IN_PROGRESS, DONE} => state.pauseStartTime = 0

C33_StepIndexInRange ==
  [][/\ state'.status \in {IN_PROGRESS, PAUSED, DONE} =>
          /\ 0 <= state'.stepIndex
          /\ state'.stepIndex < Len(steps(state'))
     /\ state.status # DONE /\ state'.status = DONE =>
          state'.stepIndex = Len(steps(state')) - 1]_vars

\* C33 witness: a tick has advanced past the last step of a workout of more
\* than one step.
C33_TickFinished ==
  /\ lastOp = "onTimerTick"
  /\ state.status = DONE
  /\ Len(steps(state)) > 1
  /\ finishCount = 1

\* -------------------------------------------------------------- termination
\* C34: every started workout eventually reaches Done when the ticks keep
\* firing, the announcements complete and the user taps every reps-based
\* Exercise: no step holds the session forever.
C34_StartedReachesDone ==
  (state.status = IN_PROGRESS) ~> (state.status = DONE)

\* ---------------------------------------------------------------- wake lock
\* C35: no screen wake lock is held while the session is in Editing, whatever
\* the moment at which the acquire requested by Start settles.
C35_NoWakeLockInEditing ==
  state.status = EDITING => ~wakeLock

\* --------------------------------------------------------------------- mute
\* C36: Toggle Pause leaves the mute setting as it found it, on the pause
\* and on the resume, whether the speech was muted or not.
C36_TogglePauseKeepsMute ==
  [][lastOp' = "togglePause" => isMuted' = isMuted]_vars
\* ------------------------------------------------- announcement continuations
\* C37: the timer of a step is stamped once per entry or resume: a
\* continuation that finds the workout in progress with the step timer
\* already running leaves stepResumedAt and stepElapsedMs as they are, also
\* when a pause was followed at once by a resume during a Transition's
\* announcement.
C37_TimerStampedOnce ==
  [][lastOp' = "announceContinuation" /\ state.status = IN_PROGRESS
       /\ state.stepResumedAt # 0
     => /\ state'.stepResumedAt = state.stepResumedAt
        /\ state'.stepElapsedMs = state.stepElapsedMs]_vars
\* ------------------------------------------------------ compiled breakpoints
SecondsExercise(step) == step.type = "exercise" /\ step.volume.unit # "reps"

\* C38: in the steps the compiler produces every seconds-based Exercise
\* stands right after a Transition; so the first step is a breakpoint, and
\* findPrevBreakpointIndex lands on a breakpoint from every step, its
\* fallback to index 0 included.
C38_SecondsExerciseFollowsTransition ==
  Compiled /\ output.ok =>
    LET ss == output.data.steps
    IN /\ \A i \in 1..Len(ss) :
            SecondsExercise(ss[i]) => i > 1 /\ ss[i - 1].type = "transition"
       /\ Len(ss) > 0 => isBreakpointStep(ss[1])
       /\ \A i \in 0..(Len(ss) - 1) :
            isBreakpointStep(ss[prevBreakpointFrom(ss, i - 1) + 1])

\* A compiled text whose last line is a seconds-based exercise done on each
\* side: the right side follows the change of sides.
C38_RightSideCompiled ==
  /\ Compiled /\ output.ok
  /\ LET ss == output.data.steps
     IN /\ Len(ss) >= 4
        /\ SecondsExercise(ss[Len(ss)]) /\ ss[Len(ss)].side = "right"
        /\ ss[Len(ss) - 1].type = "transition"
\* ------------------------------------------------------ workout elapsed time
WorkoutElapsedS == getWorkoutElapsedS(state, now)

C40_StoreIndexInRange ==
  /\ Len(workoutStore.workouts) >= 1
  /\ IsIndexOf(workoutStore.currentIndex, workoutStore.workouts)
====
